---- MODULE Spec2Model ----
(***************************************************************************)
(* Verification model of the Forever plugin (squidcode/forever-plugin):    *)
(* the content codec, the project resolver, the credential-backed API      *)
(* client factory and the nine MCP tool handlers, memory_sync_files in     *)
(* particular.                                                             *)
(*                                                                         *)
(* Buffers and strings are run-length encoded: a sequence of runs          *)
(* [b |-> value, n |-> count], kept normalised (no empty run, no two       *)
(* adjacent runs of the same value), so that two buffers are equal exactly *)
(* when they hold the same bytes.  A byte is 0..255, a character of a      *)
(* string is its code point.                                               *)
(***************************************************************************)
EXTENDS Integers, Sequences, FiniteSets, TLC

VARIABLES
  cBytes,    \* codec: the bytes B first written to the file
  cFile,     \* codec: the bytes currently in the file
  cEnc,      \* codec: result of readAndEncodeFile, or NoValue
  cPc,       \* codec: "written" | "encoded" | "failed" | "decoded"
  credFile,  \* ~/.forever/credentials.json
  cwd,       \* process.cwd(), a sequence of characters
  gitOut,    \* what `git remote get-url origin` does in cwd
  rExplicit, \* resolver: the explicit argument of the last resolveProject
  rResult,   \* resolver: what that call returned, or NoValue
  apiOpts,   \* client: the options of the last createApiClient call
  apiResult, \* client: what that call returned or threw, or NoValue
  fs,        \* the local files the tools name, by path
  pc,        \* "idle" between invocations, "await" while a request is in
             \* flight, "done" when the handler has returned or thrown
  call,      \* the tool invocation being served (or served last)
  reqLog,    \* the HTTP requests that invocation has issued, with outcomes
  sync,      \* the local variables of the memory_sync_files handler, with
             \* the verdicts it has attempted and the latestRes.data it has got
  result,    \* what the invocation returned to the protocol layer, or NoValue
  touched,   \* the local file accesses of that invocation
  serverFiles, \* a hash-comparing server: the latest stored version by path
  runNo,     \* how many memory_sync_files runs have been started against it
  prevRun,   \* the per-file action log of the run before the current one
  machineFile, \* ~/.forever/machine.json
  machineId,   \* the machineId constant of the running process, or NoValue
  host,        \* os.hostname()
  mStarts,     \* how many processes have been started
  mWrites,     \* how many times machine.json has been written
  sessionId,   \* the sessionId constant of the running process, or NoValue
  claudeMd,    \* ~/.claude/CLAUDE.md
  cli,         \* the install and login commands run so far, and the last one
  perms,       \* permission bits of ~/.forever and the two files in it, the
               \* umask, and which of the files was saved last
  race,        \* processes loading index.ts at the same time: where each is
               \* in getOrCreateMachineId, and the writes in order
  login        \* the login subcommand: where it is in its polling loop, its
               \* clock and deadline, its exit code

codecVars == <<cBytes, cFile, cEnc, cPc>>
machineVars == <<machineFile, machineId, host, mStarts, mWrites>>
hostVars == <<sessionId, claudeMd, cli, perms, race, login>>
envVars == <<credFile, cwd, gitOut, machineFile, machineId, host, mStarts, mWrites,
             sessionId, claudeMd, cli, perms, race, login>>
resolverVars == <<rExplicit, rResult>>
clientVars == <<apiOpts, apiResult>>
serverVars == <<serverFiles, runNo, prevRun>>
toolVars == <<fs, pc, call, reqLog, sync, result, touched, serverFiles, runNo, prevRun>>
vars == <<cBytes, cFile, cEnc, cPc, credFile, cwd, gitOut, rExplicit, rResult,
          apiOpts, apiResult, fs, pc, call, reqLog, sync, result, touched,
          serverFiles, runNo, prevRun, machineFile, machineId, host, mStarts,
          mWrites, sessionId, claudeMd, cli, perms, race, login>>

NoValue == [none |-> TRUE]

(***************************************************************************)
(* Bounds of the model.                                                    *)
(***************************************************************************)
MaxLen == 3          \* longest enumerated byte sequence
MaxStarts == 3       \* most processes started one after another
MaxInstalls == 3     \* most install and login commands run one after another
MaxProcs == 3        \* most processes loading index.ts at the same time

(***************************************************************************)
(* Run-length encoded buffers.                                             *)
(***************************************************************************)
Run(b, n) == [b |-> b, n |-> n]

RECURSIVE Norm(_)
Norm(buf) ==
  IF buf = <<>> THEN <<>>
  ELSE IF Head(buf).n = 0 THEN Norm(Tail(buf))
  ELSE LET rest == Norm(Tail(buf)) IN
       IF rest # <<>> /\ Head(rest).b = Head(buf).b
       THEN <<Run(Head(buf).b, Head(buf).n + Head(rest).n)>> \o Tail(rest)
       ELSE <<Head(buf)>> \o rest

Cat(a, b) == Norm(a \o b)

Pack(seq) == Norm([i \in 1..Len(seq) |-> Run(seq[i], 1)])

RECURSIVE Expand(_)
Expand(buf) ==
  IF buf = <<>> THEN <<>>
  ELSE IF Head(buf).n = 1 THEN <<Head(buf).b>> \o Expand(Tail(buf))
  ELSE <<Head(buf).b>> \o Expand(<<Run(Head(buf).b, Head(buf).n - 1)>> \o Tail(buf))

RECURSIVE BufLen(_)
BufLen(buf) == IF buf = <<>> THEN 0 ELSE Head(buf).n + BufLen(Tail(buf))

\* buffer.subarray(0, k) / string.slice(0, k)
RECURSIVE SubArray(_, _)
SubArray(buf, k) ==
  IF buf = <<>> \/ k <= 0 THEN <<>>
  ELSE IF Head(buf).n >= k THEN <<Run(Head(buf).b, k)>>
  ELSE <<Head(buf)>> \o SubArray(Tail(buf), k - Head(buf).n)

\* string.slice(k)
RECURSIVE Slice(_, _)
Slice(buf, k) ==
  IF buf = <<>> \/ k <= 0 THEN buf
  ELSE IF Head(buf).n > k THEN <<Run(Head(buf).b, Head(buf).n - k)>> \o Tail(buf)
  ELSE Slice(Tail(buf), k - Head(buf).n)

Includes(buf, v) == \E i \in 1..Len(buf) : buf[i].b = v

StartsWith(str, prefix) == SubArray(str, BufLen(prefix)) = prefix

(***************************************************************************)
(* Character conversions of the Node runtime used by the codec.            *)
(***************************************************************************)
ReplacementChar == 65533     \* U+FFFD

\* Buffer.toString('utf-8').  ASCII bytes map to themselves; the byte
\* triple EF BF BD is the encoding of U+FFFD; every other byte >= 0x80 the
\* model feeds in (0xFF, which no UTF-8 sequence contains) decodes to one
\* U+FFFD per byte.
RECURSIVE Utf8Decode(_)
Utf8Decode(buf) ==
  IF buf = <<>> THEN <<>>
  ELSE IF Head(buf).b < 128
       THEN Cat(<<Head(buf)>>, Utf8Decode(Tail(buf)))
  ELSE IF /\ Len(buf) >= 3
          /\ buf[1] = Run(239, 1) /\ buf[2] = Run(191, 1) /\ buf[3] = Run(189, 1)
       THEN Cat(<<Run(ReplacementChar, 1)>>, Utf8Decode(SubSeq(buf, 4, Len(buf))))
  ELSE Cat(<<Run(ReplacementChar, Head(buf).n)>>, Utf8Decode(Tail(buf)))

\* writeFileSync(path, string, 'utf-8'): the UTF-8 encoding of the string.
RECURSIVE Utf8Encode(_)
Utf8Encode(str) ==
  IF str = <<>> THEN <<>>
  ELSE IF Head(str).b < 128
       THEN Cat(<<Head(str)>>, Utf8Encode(Tail(str)))
  ELSE Cat(<<Run(239, 1), Run(191, 1), Run(189, 1)>>,
           Utf8Encode(Norm(<<Run(Head(str).b, Head(str).n - 1)>> \o Tail(str))))

B64Char(i) ==
  IF i < 26 THEN 65 + i
  ELSE IF i < 52 THEN 97 + (i - 26)
  ELSE IF i < 62 THEN 48 + (i - 52)
  ELSE IF i = 62 THEN 43 ELSE 47

\* value of a character in the base64 alphabet, -1 for any other character
\* ('-' and '_' are accepted as 62 and 63, as Node does)
B64Val(c) ==
  IF c >= 65 /\ c <= 90 THEN c - 65
  ELSE IF c >= 97 /\ c <= 122 THEN c - 97 + 26
  ELSE IF c >= 48 /\ c <= 57 THEN c - 48 + 52
  ELSE IF c = 43 \/ c = 45 THEN 62
  ELSE IF c = 47 \/ c = 95 THEN 63
  ELSE -1

RECURSIVE B64EncodeSeq(_)
B64EncodeSeq(s) ==
  IF s = <<>> THEN <<>>
  ELSE IF Len(s) = 1
       THEN <<B64Char(s[1] \div 4), B64Char((s[1] % 4) * 16), 61, 61>>
  ELSE IF Len(s) = 2
       THEN <<B64Char(s[1] \div 4), B64Char((s[1] % 4) * 16 + s[2] \div 16),
              B64Char((s[2] % 16) * 4), 61>>
  ELSE <<B64Char(s[1] \div 4), B64Char((s[1] % 4) * 16 + s[2] \div 16),
         B64Char((s[2] % 16) * 4 + s[3] \div 64), B64Char(s[3] % 64)>>
       \o B64EncodeSeq(SubSeq(s, 4, Len(s)))

\* Buffer.toString('base64')
Base64Encode(buf) == Pack(B64EncodeSeq(Expand(buf)))

\* the sextets of a base64 string as Node reads them: characters outside
\* the alphabet are skipped, '=' ends the input
RECURSIVE B64Sextets(_)
B64Sextets(s) ==
  IF s = <<>> THEN <<>>
  ELSE IF s[1] = 61 THEN <<>>
  ELSE IF B64Val(s[1]) < 0 THEN B64Sextets(Tail(s))
  ELSE <<B64Val(s[1])>> \o B64Sextets(Tail(s))

RECURSIVE B64DecodeSextets(_)
B64DecodeSextets(v) ==
  IF Len(v) < 2 THEN <<>>
  ELSE IF Len(v) = 2 THEN <<v[1] * 4 + v[2] \div 16>>
  ELSE IF Len(v) = 3
       THEN <<v[1] * 4 + v[2] \div 16, (v[2] % 16) * 16 + v[3] \div 4>>
  ELSE <<v[1] * 4 + v[2] \div 16, (v[2] % 16) * 16 + v[3] \div 4,
         (v[3] % 4) * 64 + v[4]>>
       \o B64DecodeSextets(SubSeq(v, 5, Len(v)))

\* Buffer.from(string, 'base64')
Base64Decode(str) == Pack(B64DecodeSextets(B64Sextets(Expand(str))))

(***************************************************************************)
(* files.ts: the content codec.                                            *)
(***************************************************************************)
MAX_FILE_SIZE == 1048576
SAMPLE_SIZE == 8192

\* the literal 'base64:'
BASE64_PREFIX == Pack(<<98, 97, 115, 101, 54, 52, 58>>)

\* MD5 is modelled as a collision-free digest of the raw bytes.
computeMd5(buffer) == [md5 |-> buffer]

\* isBinary looking at the whole buffer instead of its first 8 KiB
isBinary_WholeBuffer(buffer) == Includes(buffer, 0)

isBinary(buffer) ==
  LET sample == SubArray(buffer, SAMPLE_SIZE) IN Includes(sample, 0)

\* readAndEncodeFile rejecting a file of exactly the limit (>= for >)
readAndEncodeFile_InclusiveLimit(buffer) ==
  IF BufLen(buffer) >= MAX_FILE_SIZE
  THEN [thrown |-> TRUE]
  ELSE [thrown  |-> FALSE,
        content |-> IF isBinary(buffer)
                    THEN Cat(BASE64_PREFIX, Base64Encode(buffer))
                    ELSE Utf8Decode(buffer),
        hash    |-> computeMd5(buffer),
        size    |-> BufLen(buffer)]

\* readAndEncodeFile without the size check
readAndEncodeFile_NoLimit(buffer) ==
  [thrown  |-> FALSE,
   content |-> IF isBinary(buffer)
               THEN Cat(BASE64_PREFIX, Base64Encode(buffer))
               ELSE Utf8Decode(buffer),
   hash    |-> computeMd5(buffer),
   size    |-> BufLen(buffer)]

\* readAndEncodeFile hashing the content string it returns instead of the
\* raw bytes
readAndEncodeFile_HashesContent(buffer) ==
  IF BufLen(buffer) > MAX_FILE_SIZE
  THEN [thrown |-> TRUE]
  ELSE LET content == IF isBinary(buffer)
                      THEN Cat(BASE64_PREFIX, Base64Encode(buffer))
                      ELSE Utf8Decode(buffer)
       IN [thrown  |-> FALSE,
           content |-> content,
           hash    |-> computeMd5(content),
           size    |-> BufLen(buffer)]

\* readAndEncodeFile applied to the bytes readFileSync returned; thrown is
\* TRUE when it throws the size-limit Error.
readAndEncodeFile(buffer) ==
  IF BufLen(buffer) > MAX_FILE_SIZE
  THEN [thrown |-> TRUE]
  ELSE [thrown  |-> FALSE,
        content |-> IF isBinary(buffer)
                    THEN Cat(BASE64_PREFIX, Base64Encode(buffer))
                    ELSE Utf8Decode(buffer),
        hash    |-> computeMd5(buffer),
        size    |-> BufLen(buffer)]

\* writeDecodedFile: the bytes it writes to the file for a content string.
writeDecodedFile(content) ==
  IF StartsWith(content, BASE64_PREFIX)
  THEN Base64Decode(Slice(content, 7))
  ELSE Utf8Encode(content)

(***************************************************************************)
(* JavaScript values.  A string is [str |-> <<characters>>]; undefined and *)
(* null are records of their own, so that any two values can be compared.  *)
(***************************************************************************)
Undefined == [undefined |-> TRUE]
Null == [null |-> TRUE]
Str(s) == [str |-> s]
IsStr(v) == "str" \in DOMAIN v
\* JavaScript truthiness of a string-or-nullish value
Truthy(v) == IsStr(v) /\ v.str # <<>>

\* String.prototype.trim
IsSpace(c) == c \in {" ", "\n", "\t", "\r"}
RECURSIVE TrimStart(_)
TrimStart(s) == IF s # <<>> /\ IsSpace(Head(s)) THEN TrimStart(Tail(s)) ELSE s
RECURSIVE TrimEnd(_)
TrimEnd(s) ==
  IF s # <<>> /\ IsSpace(s[Len(s)]) THEN TrimEnd(SubSeq(s, 1, Len(s) - 1)) ELSE s
Trim(s) == TrimEnd(TrimStart(s))

\* path.basename on a POSIX path: trailing slashes dropped, then what
\* follows the last slash ('' for the root)
RECURSIVE StripSlashes(_)
StripSlashes(p) ==
  IF p # <<>> /\ p[Len(p)] = "/" THEN StripSlashes(SubSeq(p, 1, Len(p) - 1)) ELSE p
RECURSIVE AfterLastSlash(_)
AfterLastSlash(p) ==
  IF p = <<>> \/ p[Len(p)] = "/" THEN <<>>
  ELSE Append(AfterLastSlash(SubSeq(p, 1, Len(p) - 1)), p[Len(p)])
basename(p) == AfterLastSlash(StripSlashes(p))

(***************************************************************************)
(* index.ts: git() and resolveProject.                                     *)
(***************************************************************************)
\* execFileSync either throws (no repository, no origin, no git, timeout)
\* or returns the standard output of the command.
GitFails == [ok |-> FALSE]
GitPrints(out) == [ok |-> TRUE, stdout |-> out]

git(run) == IF run.ok THEN Str(Trim(run.stdout)) ELSE Null

\* resolveProject asking git before looking at the explicit argument
resolveProject_GitFirst(explicit, run, dir) ==
  LET remote == git(run) IN
  IF Truthy(remote) THEN remote
  ELSE IF Truthy(explicit) THEN explicit
  ELSE IF dir # <<>> /\ dir # <<"/">> THEN Str(basename(dir))
  ELSE Null

resolveProject(explicit, run, dir) ==
  IF Truthy(explicit) THEN explicit
  ELSE LET remote == git(run) IN
       IF Truthy(remote) THEN remote
       ELSE IF dir # <<>> /\ dir # <<"/">> THEN Str(basename(dir))
       ELSE Null

(***************************************************************************)
(* client.ts: the credentials file and createApiClient.                    *)
(***************************************************************************)
\* States of credentials.json: absent, present but unreadable, or readable
\* with some text.  The text is either not JSON or the JSON text of a value.
Absent == [exists |-> FALSE]
Unreadable == [exists |-> TRUE, readable |-> FALSE]
Garbage == [exists |-> TRUE, readable |-> TRUE, json |-> FALSE]
JsonFile(v) == [exists |-> TRUE, readable |-> TRUE, json |-> TRUE, value |-> v]

\* JSON values: type is "null", "boolean", "number", "string", "array" or
\* "object"; falsy marks the values JavaScript treats as false; an object
\* carries its serverUrl and token properties (Undefined when missing).
JNull == [type |-> "null", falsy |-> TRUE]
JFalse == [type |-> "boolean", falsy |-> TRUE]
JNumber(n) == [type |-> "number", falsy |-> (n = 0), n |-> n]
JString(s) == [type |-> "string", falsy |-> (s = <<>>), s |-> s]
JArray == [type |-> "array", falsy |-> FALSE]
JObject(url, tok) ==
  [type |-> "object", falsy |-> FALSE, serverUrl |-> url, token |-> tok]

\* getCredentials: null when the file is absent or reading/parsing throws,
\* else whatever JSON.parse returned ([value |-> v])
getCredentials(file) ==
  IF ~file.exists THEN Null
  ELSE IF ~file.readable \/ ~file.json THEN Null
  ELSE [value |-> file.value]

\* serverUrl.replace(/\/$/, '')
StripTrailingSlash(s) ==
  IF s # <<>> /\ s[Len(s)] = "/" THEN SubSeq(s, 1, Len(s) - 1) ELSE s

DEFAULT_TIMEOUT == 10000

\* createApiClient(options): null, a client, or a thrown TypeError
createApiClient(file, options) ==
  LET creds == getCredentials(file) IN
  IF creds = Null \/ creds.value.falsy THEN Null
  ELSE IF creds.value.type # "object" \/ ~IsStr(creds.value.serverUrl)
       THEN [thrown |-> "TypeError"]
  ELSE [baseURL |-> Str(StripTrailingSlash(creds.value.serverUrl.str) \o <<"/", "api">>),
        authorization |-> <<"Bearer", creds.value.token>>,
        timeout |-> IF options = Undefined THEN DEFAULT_TIMEOUT ELSE options.timeout]

\* saveCredentials(creds): the file afterwards holds JSON.stringify(creds)
saveCredentials(creds) == JsonFile(creds)

IsClient(r) == "baseURL" \in DOMAIN r
HasThrown(r) == "thrown" \in DOMAIN r

(***************************************************************************)
(* client.ts and machine.ts: machine.json and getOrCreateMachineId.        *)
(***************************************************************************)
\* a JSON object as machine.json holds it, with its machineId and alias
\* properties (Undefined when missing)
MObject(id, alias) ==
  [type |-> "object", falsy |-> FALSE, machineId |-> id, alias |-> alias]

\* getMachineConfig: null when the file is absent or reading/parsing throws,
\* else whatever JSON.parse returned ([value |-> v])
getMachineConfig(file) ==
  IF ~file.exists THEN Null
  ELSE IF ~file.readable \/ ~file.json THEN Null
  ELSE [value |-> file.value]

\* saveMachineConfig(config): the file afterwards holds JSON.stringify(config)
saveMachineConfig(config) == JsonFile(config)

\* config?.machineId
ConfigMachineId(config) ==
  IF config = Null THEN Undefined
  ELSE IF config.value.type # "object" THEN Undefined
  ELSE config.value.machineId

\* an id made of the host name alone
FreshId_HostOnly(hostname, suffix) == Str(hostname)

\* `${hostname()}-${randomBytes(4).toString('hex')}`
FreshId(hostname, suffix) == Str(hostname \o <<"-">> \o suffix)

\* getOrCreateMachineId generating an id whatever the file holds
getOrCreateMachineId_AlwaysNew(file, hostname, suffix) ==
  LET id == FreshId(hostname, suffix) IN
  [id |-> id, wrote |-> TRUE,
   file |-> saveMachineConfig(MObject(id, Str(hostname)))]

\* getOrCreateMachineId(): the id it returns, whether it wrote machine.json,
\* and the file afterwards; suffix is what randomBytes yields
getOrCreateMachineId(file, hostname, suffix) ==
  LET config == getMachineConfig(file) IN
  IF Truthy(ConfigMachineId(config))
  THEN [id |-> ConfigMachineId(config), wrote |-> FALSE, file |-> file]
  ELSE LET id == FreshId(hostname, suffix) IN
       [id |-> id, wrote |-> TRUE,
        file |-> saveMachineConfig(MObject(id, Str(hostname)))]

\* what os.hostname() and randomBytes(4).toString('hex') may yield
Hostnames == {<<"h">>, <<"k">>}
RandomSuffixes == {<<"1">>, <<"2">>, <<"3">>}

(***************************************************************************)
(* client.ts: permission bits.  A mode is three octal digits (owner,       *)
(* group, other); NoMode stands for a path that does not exist.  perms     *)
(* holds the umask of the process, the modes of ~/.forever, of             *)
(* credentials.json and of machine.json, which of the two files was saved  *)
(* last, and whether ensureConfigDir has created the directory.            *)
(***************************************************************************)
NoMode == <<>>
OwnerOnlyFile == <<6, 0, 0>>     \* 0o600
OwnerOnlyDir == <<7, 0, 0>>      \* 0o700

\* d & ~u for two octal digits
ClearBits(d, u) ==
  LET Bit(b) == IF (d \div b) % 2 = 1 /\ (u \div b) % 2 = 0 THEN b ELSE 0
  IN Bit(1) + Bit(2) + Bit(4)

\* the mode of a path a system call creates: mode & ~umask
CreateMode(mode, umask) == [i \in 1..3 |-> ClearBits(mode[i], umask[i])]

\* the mode of the file after writeFileSync(path, data, { mode }): the
\* option is used when the call creates the file, an existing file keeps
\* the mode it has
writeFileSyncMode(old, mode, umask) ==
  IF old = NoMode THEN CreateMode(mode, umask) ELSE old

ensureConfigDir(p) ==
  IF p.dir = NoMode
  THEN [p EXCEPT !.dir = CreateMode(OwnerOnlyDir, p.umask), !.madeDir = TRUE]
  ELSE p

\* the permission bits saveCredentials leaves
saveCredentialsModes(p) ==
  [ensureConfigDir(p) EXCEPT
     !.cred = writeFileSyncMode(p.cred, OwnerOnlyFile, p.umask),
     !.saved = "credentials"]

\* the permission bits saveMachineConfig leaves
saveMachineConfigModes(p) ==
  [ensureConfigDir(p) EXCEPT
     !.machine = writeFileSyncMode(p.machine, OwnerOnlyFile, p.umask),
     !.saved = "machine"]

\* the bits when every path that exists was created by the program itself
PermsAsCreated(cred, machine) ==
  [umask   |-> <<0, 2, 2>>,
   dir     |-> IF cred.exists \/ machine.exists THEN OwnerOnlyDir ELSE NoMode,
   cred    |-> IF cred.exists THEN OwnerOnlyFile ELSE NoMode,
   machine |-> IF machine.exists THEN OwnerOnlyFile ELSE NoMode,
   saved   |-> "none",
   madeDir |-> FALSE]

(***************************************************************************)
(* index.ts: the process constants and the CLAUDE.md instructions.  The    *)
(* text of CLAUDE.md is a sequence of characters; the marker and the       *)
(* instruction block are abridged to what ensureClaudeMdInstructions looks *)
(* at: the block begins with a newline, holds the marker, ends with a      *)
(* newline.                                                                *)
(***************************************************************************)
\* `${Date.now()}-${randomBytes(4).toString('hex')}`
NewSessionId(now, random) == Str(now \o <<"-">> \o random)

FOREVER_MARKER == <<"#", "F">>
FOREVER_INSTRUCTIONS == <<"\n">> \o FOREVER_MARKER \o <<"\n", "u", "\n">>

TextFile(text) == [exists |-> TRUE, text |-> text]

\* existing.includes(needle)
TextIncludes(text, needle) ==
  \E i \in 0..(Len(text) - Len(needle)) :
     SubSeq(text, i + 1, i + Len(needle)) = needle

\* ensureClaudeMdInstructions appending whether or not the marker is there
ensureClaudeMdInstructions_NoMarkerCheck(file, force) ==
  LET existing == IF file.exists THEN file.text ELSE <<>>
      separator == IF Len(existing) > 0 /\ existing[Len(existing)] # "\n"
                   THEN <<"\n">> ELSE <<>>
  IN [result |-> "added",
      file |-> TextFile(existing \o separator \o FOREVER_INSTRUCTIONS)]

\* ensureClaudeMdInstructions(force): what it returns and the file afterwards
ensureClaudeMdInstructions(file, force) ==
  LET existing == IF file.exists THEN file.text ELSE <<>> IN
  IF file.exists /\ ~force /\ TextIncludes(existing, FOREVER_MARKER)
  THEN [result |-> "exists", file |-> file]
  ELSE LET separator == IF Len(existing) > 0 /\ existing[Len(existing)] # "\n"
                        THEN <<"\n">> ELSE <<>>
       IN [result |-> "added",
           file |-> TextFile(existing \o separator \o FOREVER_INSTRUCTIONS)]

CliIdle == [calls |-> 0, adds |-> 0, last |-> NoValue]

\* a JavaScript number that may be NaN
Num(n) == [nan |-> FALSE, n |-> n]
NotANumber == [nan |-> TRUE, n |-> 0]

\* a < b for the clock a and the number b: false when b is NaN
Before(a, b) == ~b.nan /\ a < b.n

\* the login subcommand has not been started. pc is "off", "code" (awaiting
\* the device code), "sleep" (in the 5 s timer), "token" (awaiting the token
\* endpoint) or "exited"; now is Date.now() in ms since the start; last
\* is what the token endpoint answered last; before is credentials.json
\* as the command found it; mdLocked says that CLAUDE.md cannot be written
LoginOff ==
  [pc |-> "off", now |-> 0, deadline |-> NotANumber, polls |-> 0,
   last |-> "none", exit |-> -1, message |-> "", before |-> NoValue,
   mdLocked |-> FALSE]

\* the record of one more command: adds counts the commands without
\* --force that appended the block
CliRan(cmd, force, returned) ==
  [calls |-> cli.calls + 1,
   adds  |-> IF ~force /\ returned = "added" THEN cli.adds + 1 ELSE cli.adds,
   last  |-> [cmd |-> cmd, force |-> force, result |-> returned]]

\* the permission bits a file and a directory may have been given by hand
Umasks == {<<0, 2, 2>>, <<0, 7, 7>>}
DirModes == {<<7, 0, 0>>, <<7, 5, 5>>}
FileModes == {<<6, 0, 0>>, <<6, 4, 4>>}
PermsFor(cred, machine) ==
  {[umask |-> u, dir |-> d, cred |-> c, machine |-> m, saved |-> "none",
    madeDir |-> FALSE] :
     u \in Umasks,
     d \in IF cred.exists \/ machine.exists THEN DirModes ELSE DirModes \cup {NoMode},
     c \in IF cred.exists THEN FileModes ELSE {NoMode},
     m \in IF machine.exists THEN FileModes ELSE {NoMode}}

(***************************************************************************)
(* machine.ts run by several processes at once: each is "off", has read    *)
(* machine.json and must "generate", has opened the file for "writing"     *)
(* (which empties it), or is "running" with its machineId.  seen is how    *)
(* many writes had completed when the process read the file, random what   *)
(* randomBytes gave it; writers lists the completed writes in order.       *)
(***************************************************************************)
Procs == 1..MaxProcs

RaceIdle ==
  [procs |-> [p \in Procs |-> [pc |-> "off", id |-> NoValue, seen |-> 0,
                               random |-> NoValue, wrote |-> FALSE]],
   writers |-> <<>>]

(***************************************************************************)
(* index.ts: what the nine tool handlers share.                            *)
(***************************************************************************)
Paths == {"a.txt", "d/b.bin"}

File(bytes) == [exists |-> TRUE, bytes |-> bytes]

Tools ==
  {"memory_log", "memory_get_recent", "memory_get_sessions", "memory_search",
   "memory_store_file", "memory_restore_file", "memory_share_file",
   "memory_unshare_file", "memory_sync_files"}

\* no handler passing a timeout option
ToolOptions_NoneGiven(tool) == Undefined

\* the options each handler passes to createApiClient
ToolOptions(tool) ==
  IF tool \in {"memory_store_file", "memory_restore_file", "memory_share_file",
               "memory_sync_files"}
  THEN [timeout |-> 30000]
  ELSE Undefined

\* memory_search is the one handler that does not call resolveProject
ResolvesProject(tool) == tool # "memory_search"

\* the text of a result: a message and the detail interpolated into it
Text(msg, detail) == [msg |-> msg, detail |-> detail]
NOT_AUTHENTICATED ==
  Text("Not authenticated. Run: npx @squidcode/forever-plugin login", "")
NO_PROJECT == Text("Could not detect project. Please specify a project name.", "")

Returned(text, err) == [kind |-> "text", text |-> text, err |-> err]
Escaped(error) == [kind |-> "escaped", error |-> error]

\* the head of a handler that lacks the null check on the resolved project
Preflight_NoProjectCheck(tool, explicit) ==
  LET api == createApiClient(credFile, ToolOptions(tool)) IN
  IF HasThrown(api)
  THEN [kind |-> "escaped", error |-> api.thrown, text |-> NoValue,
        project |-> NoValue, timeout |-> NoValue]
  ELSE IF api = Null
  THEN [kind |-> "return", error |-> NoValue, text |-> NOT_AUTHENTICATED,
        project |-> NoValue, timeout |-> NoValue]
  ELSE IF ~ResolvesProject(tool)
  THEN [kind |-> "go", error |-> NoValue, text |-> NoValue,
        project |-> NoValue, timeout |-> api.timeout]
  ELSE [kind |-> "go", error |-> NoValue, text |-> NoValue,
        project |-> resolveProject(explicit, gitOut, cwd), timeout |-> api.timeout]

\* the head of a handler that checks the project before the client
Preflight_ProjectFirst(tool, explicit) ==
  LET api == createApiClient(credFile, ToolOptions(tool))
      resolvedProject == resolveProject(explicit, gitOut, cwd)
  IN IF HasThrown(api)
     THEN [kind |-> "escaped", error |-> api.thrown, text |-> NoValue,
           project |-> NoValue, timeout |-> NoValue]
     ELSE IF ResolvesProject(tool) /\ ~Truthy(resolvedProject)
     THEN [kind |-> "return", error |-> NoValue, text |-> NO_PROJECT,
           project |-> resolvedProject, timeout |-> NoValue]
     ELSE IF api = Null
     THEN [kind |-> "return", error |-> NoValue, text |-> NOT_AUTHENTICATED,
           project |-> NoValue, timeout |-> NoValue]
     ELSE [kind |-> "go", error |-> NoValue, text |-> NoValue,
           project |-> IF ResolvesProject(tool) THEN resolvedProject ELSE NoValue,
           timeout |-> api.timeout]

\* The head of every handler: createApiClient, the null check, then
\* resolveProject and its null check.  project is NoValue when resolveProject
\* was not called, timeout is NoValue when no client was created.
Preflight(tool, explicit) ==
  LET api == createApiClient(credFile, ToolOptions(tool)) IN
  IF HasThrown(api)
  THEN [kind |-> "escaped", error |-> api.thrown, text |-> NoValue,
        project |-> NoValue, timeout |-> NoValue]
  ELSE IF api = Null
  THEN [kind |-> "return", error |-> NoValue, text |-> NOT_AUTHENTICATED,
        project |-> NoValue, timeout |-> NoValue]
  ELSE IF ~ResolvesProject(tool)
  THEN [kind |-> "go", error |-> NoValue, text |-> NoValue,
        project |-> NoValue, timeout |-> api.timeout]
  ELSE LET resolvedProject == resolveProject(explicit, gitOut, cwd) IN
       IF ~Truthy(resolvedProject)
       THEN [kind |-> "return", error |-> NoValue, text |-> NO_PROJECT,
             project |-> resolvedProject, timeout |-> api.timeout]
       ELSE [kind |-> "go", error |-> NoValue, text |-> NoValue,
             project |-> resolvedProject, timeout |-> api.timeout]

\* errors a handler can catch: an axios error with a response (whose body
\* may carry a message) or without one, and the Error of readAndEncodeFile
HttpError(bodyMessage) ==
  [response |-> TRUE, bodyMessage |-> bodyMessage,
   message |-> "Request failed with status code 500"]
NetworkError ==
  [response |-> FALSE, bodyMessage |-> "", message |-> "timeout exceeded"]
SizeError ==
  [response |-> FALSE, bodyMessage |-> "", message |-> "File exceeds 1MB limit"]
NoEntryError ==
  [response |-> FALSE, bodyMessage |-> "", message |-> "ENOENT: no such file"]

\* err.response?.data?.message || err.message
ResponseMessage(err) ==
  IF err.bodyMessage # "" THEN err.bodyMessage ELSE err.message

FailPrefix(tool) ==
  CASE tool = "memory_log" -> "Failed to log"
    [] tool = "memory_get_recent" -> "Failed to fetch"
    [] tool = "memory_get_sessions" -> "Failed to fetch sessions"
    [] tool = "memory_search" -> "Search failed"
    [] tool = "memory_store_file" -> "Failed to store file"
    [] tool = "memory_restore_file" -> "Failed to restore file"
    [] tool = "memory_share_file" -> "Failed to share file"
    [] tool = "memory_unshare_file" -> "Failed to unshare file"
    [] tool = "memory_sync_files" -> "Sync failed"

\* the catch block of each handler
CatchText(tool, err) ==
  IF tool \in {"memory_log", "memory_get_recent", "memory_get_sessions",
               "memory_search"}
  THEN Text(FailPrefix(tool), err.message)
  ELSE Text(FailPrefix(tool), ResponseMessage(err))

\* an HTTP request of the invocation; outcome is "pending", "ok" or "failed",
\* data what GET /files/latest returned
Request(ep, project, filePath, body, idx) ==
  [ep |-> ep, project |-> project, filePath |-> filePath, body |-> body,
   idx |-> idx, outcome |-> "pending", err |-> NoValue, data |-> NoValue]

Touch(op, path) == [op |-> op, path |-> path]

\* memory_log falling back to the process sessionId with ?? in place of ||
LogIdentity_Nullish(explicitSessionId) ==
  [machineId |-> machineId,
   sessionId |-> IF explicitSessionId \in {Undefined, Null}
                 THEN sessionId ELSE explicitSessionId]

\* the machineId and sessionId properties of the body of POST /logs:
\* sessionId is explicitSessionId || sessionId
LogIdentity(explicitSessionId) ==
  [machineId |-> machineId,
   sessionId |-> IF Truthy(explicitSessionId) THEN explicitSessionId ELSE sessionId]

\* the body of POST /files/store apart from project and filePath
StoreBody(enc) ==
  [content |-> enc.content, contentHash |-> enc.hash,
   machineId |-> machineId, sessionId |-> sessionId]

Settle(log, resp) ==
  LET req == log[Len(log)] IN
  [log EXCEPT ![Len(log)] =
     [req EXCEPT !.outcome = IF resp.ok THEN "ok" ELSE "failed",
                 !.err = IF resp.ok THEN NoValue ELSE resp.err,
                 !.data = IF resp.ok /\ req.ep = "GET /files/latest"
                          THEN resp.data ELSE NoValue]]

FirstEndpoint(tool) ==
  CASE tool = "memory_log" -> "POST /logs"
    [] tool = "memory_get_recent" -> "GET /logs/recent"
    [] tool = "memory_get_sessions" -> "GET /logs/sessions"
    [] tool = "memory_search" -> "GET /logs/search"
    [] tool = "memory_store_file" -> "POST /files/store"
    [] tool = "memory_restore_file" -> "GET /files/latest"
    [] tool = "memory_share_file" -> "POST /files/store"
    [] tool = "memory_unshare_file" -> "POST /files/unshare"
    [] tool = "memory_sync_files" -> "GET /files/shared"

\* From the end of the precondition checks to the first request: the
\* existsSync test and readAndEncodeFile of memory_store_file and
\* memory_share_file, nothing for the other handlers.
FirstStep(tool, explicit, project, filePath, files, explicitSessionId) ==
  IF tool \in {"memory_store_file", "memory_share_file"}
  THEN IF ~files[filePath].exists
       THEN [kind |-> "return", text |-> Text("File not found", filePath),
             err |-> NoValue, touched |-> {Touch("existsSync", filePath)}]
       ELSE LET enc == readAndEncodeFile(files[filePath].bytes)
                t == {Touch("existsSync", filePath), Touch("readFileSync", filePath)}
            IN IF enc.thrown
               THEN [kind |-> "return", text |-> CatchText(tool, SizeError),
                     err |-> SizeError, touched |-> t]
               ELSE [kind |-> "request", touched |-> t,
                     req |-> Request("POST /files/store", project, filePath,
                                     StoreBody(enc), 0)]
  ELSE [kind |-> "request", touched |-> {},
        req |-> Request(FirstEndpoint(tool),
                        IF tool = "memory_search"
                        THEN (IF Truthy(explicit) THEN explicit ELSE Undefined)
                        ELSE project,
                        filePath,
                        IF tool = "memory_log"
                        THEN LogIdentity(explicitSessionId) ELSE NoValue,
                        0)]

SyncIdle ==
  [sharedFiles |-> <<>>, localFiles |-> <<>>, verdicts |-> <<>>,
   gotVerdicts |-> FALSE, idx |-> 0, downloaded |-> 0, uploaded |-> 0,
   upToDate |-> 0, results |-> <<>>, attempted |-> {}, fetched |-> <<>>]

NoVersion == [stored |-> FALSE]

ServerIdle ==
  /\ serverFiles = [p \in Paths |-> NoVersion]
  /\ runNo = 0
  /\ prevRun = <<>>

ToolsIdle ==
  /\ fs = [p \in Paths |-> Absent]
  /\ pc = "idle"
  /\ call = NoValue
  /\ reqLog = <<>>
  /\ sync = SyncIdle
  /\ result = NoValue
  /\ touched = {}
  /\ ServerIdle

\* one step of a handler: where it stops and everything it has changed
Step(pcNew, c, log, res, files, t, sy) ==
  /\ pc' = pcNew
  /\ call' = c
  /\ reqLog' = log
  /\ result' = res
  /\ fs' = files
  /\ touched' = t
  /\ sync' = sy
  /\ UNCHANGED <<envVars, codecVars, resolverVars, clientVars>>

\* A tool invocation arrives: the handler runs to its first await or return.
Invoke(tool, explicit, filePath, explicitSessionId) ==
  /\ pc = "idle"
  /\ LET pre == Preflight(tool, explicit)
         c == [tool |-> tool, explicit |-> explicit, filePath |-> filePath,
               explicitSessionId |-> explicitSessionId,
               project |-> pre.project, timeout |-> pre.timeout, step |-> "first"]
     IN IF pre.kind = "escaped"
        THEN Step("done", c, <<>>, Escaped(pre.error), fs, {}, SyncIdle)
        ELSE IF pre.kind = "return"
        THEN Step("done", c, <<>>, Returned(pre.text, NoValue), fs, {}, SyncIdle)
        ELSE LET first == FirstStep(tool, explicit, pre.project, filePath, fs,
                                    explicitSessionId) IN
             IF first.kind = "return"
             THEN Step("done", c, <<>>, Returned(first.text, first.err), fs,
                       first.touched, SyncIdle)
             ELSE Step("await", c, <<first.req>>, NoValue, fs, first.touched, SyncIdle)

\* The protocol layer has delivered the outcome of the invocation and waits
\* for the next one; nothing of the finished handler remains.
Serve ==
  /\ pc = "done"
  /\ Step("idle", NoValue, <<>>, NoValue, fs, {}, SyncIdle)

(***************************************************************************)
(* index.ts: the handlers with one or two requests.                        *)
(***************************************************************************)
\* memory_share_file sending the share request whatever became of the store
ReplyOutcome_ShareRegardless(c, resp) ==
  IF ~resp.ok /\ ~(c.tool = "memory_share_file" /\ c.step = "first")
  THEN [kind |-> "return", text |-> CatchText(c.tool, resp.err), err |-> resp.err,
        writes |-> FALSE, bytes |-> <<>>]
  ELSE CASE c.tool = "memory_log" ->
              [kind |-> "return", text |-> Text("Logged entry", ""), err |-> NoValue,
               writes |-> FALSE, bytes |-> <<>>]
         [] c.tool \in {"memory_get_recent", "memory_get_sessions", "memory_search"} ->
              [kind |-> "return", err |-> NoValue, writes |-> FALSE, bytes |-> <<>>,
               text |-> IF resp.data.length = 0
                        THEN Text("No entries found", "")
                        ELSE Text("Entries", "formatted")]
         [] c.tool = "memory_store_file" ->
              [kind |-> "return", err |-> NoValue, writes |-> FALSE, bytes |-> <<>>,
               text |-> Text("Stored", IF resp.data.deduplicated
                                       THEN " (unchanged, skipped)" ELSE "")]
         [] c.tool = "memory_restore_file" ->
              IF resp.data = Null
              THEN [kind |-> "return", err |-> NoValue, writes |-> FALSE, bytes |-> <<>>,
                    text |-> Text("No stored version found", c.filePath)]
              ELSE [kind |-> "return", err |-> NoValue,
                    writes |-> TRUE,
                    bytes |-> writeDecodedFile(resp.data.content),
                    text |-> Text("Restored", c.filePath)]
         [] c.tool = "memory_share_file" ->
              IF c.step = "first"
              THEN [kind |-> "request", err |-> NoValue, writes |-> FALSE, bytes |-> <<>>,
                    text |-> NoValue,
                    req |-> Request("POST /files/share", c.project, c.filePath,
                                    NoValue, 0)]
              ELSE [kind |-> "return", err |-> NoValue, writes |-> FALSE, bytes |-> <<>>,
                    text |-> Text("Shared", c.filePath)]
         [] c.tool = "memory_unshare_file" ->
              [kind |-> "return", err |-> NoValue, writes |-> FALSE, bytes |-> <<>>,
               text |-> Text("Stopped sharing", c.filePath)]

\* What a handler other than memory_sync_files does with the response to
\* its request: return a text, or (memory_share_file after the store) send
\* the share request.  bytes is what it writes to filePath when writes.
ReplyOutcome(c, resp) ==
  IF ~resp.ok
  THEN [kind |-> "return", text |-> CatchText(c.tool, resp.err), err |-> resp.err,
        writes |-> FALSE, bytes |-> <<>>]
  ELSE CASE c.tool = "memory_log" ->
              [kind |-> "return", text |-> Text("Logged entry", ""), err |-> NoValue,
               writes |-> FALSE, bytes |-> <<>>]
         [] c.tool \in {"memory_get_recent", "memory_get_sessions", "memory_search"} ->
              [kind |-> "return", err |-> NoValue, writes |-> FALSE, bytes |-> <<>>,
               text |-> IF resp.data.length = 0
                        THEN Text("No entries found", "")
                        ELSE Text("Entries", "formatted")]
         [] c.tool = "memory_store_file" ->
              [kind |-> "return", err |-> NoValue, writes |-> FALSE, bytes |-> <<>>,
               text |-> Text("Stored", IF resp.data.deduplicated
                                       THEN " (unchanged, skipped)" ELSE "")]
         [] c.tool = "memory_restore_file" ->
              IF resp.data = Null
              THEN [kind |-> "return", err |-> NoValue, writes |-> FALSE, bytes |-> <<>>,
                    text |-> Text("No stored version found", c.filePath)]
              ELSE [kind |-> "return", err |-> NoValue,
                    writes |-> TRUE,
                    bytes |-> writeDecodedFile(resp.data.content),
                    text |-> Text("Restored", c.filePath)]
         [] c.tool = "memory_share_file" ->
              IF c.step = "first"
              THEN [kind |-> "request", err |-> NoValue, writes |-> FALSE, bytes |-> <<>>,
                    text |-> NoValue,
                    req |-> Request("POST /files/share", c.project, c.filePath,
                                    NoValue, 0)]
              ELSE [kind |-> "return", err |-> NoValue, writes |-> FALSE, bytes |-> <<>>,
                    text |-> Text("Shared", c.filePath)]
         [] c.tool = "memory_unshare_file" ->
              [kind |-> "return", err |-> NoValue, writes |-> FALSE, bytes |-> <<>>,
               text |-> Text("Stopped sharing", c.filePath)]

\* memory_restore_file comparing first: no write when the file already holds
\* what the stored version decodes to
Reply_SkipsUnchanged(tool, resp) ==
  /\ pc = "await"
  /\ call.tool = tool
  /\ LET o == ReplyOutcome(call, resp)
         log == Settle(reqLog, resp)
     IN IF o.kind = "request"
        THEN Step("await", [call EXCEPT !.step = "second"], Append(log, o.req),
                  NoValue, fs, touched, sync)
        ELSE IF ~o.writes \/ fs[call.filePath] = File(o.bytes)
        THEN Step("done", call, log, Returned(o.text, o.err), fs, touched, sync)
        ELSE Step("done", call, log, Returned(o.text, o.err),
                  [fs EXCEPT ![call.filePath] = File(o.bytes)],
                  touched \cup {Touch("writeFileSync", call.filePath)}, sync)

\* the response to the pending request of a handler other than
\* memory_sync_files
Reply(tool, resp) ==
  /\ pc = "await"
  /\ call.tool = tool
  /\ LET o == ReplyOutcome(call, resp)
         log == Settle(reqLog, resp)
     IN IF o.kind = "request"
        THEN Step("await", [call EXCEPT !.step = "second"], Append(log, o.req),
                  NoValue, fs, touched, sync)
        ELSE IF ~o.writes
        THEN Step("done", call, log, Returned(o.text, o.err), fs, touched, sync)
        ELSE Step("done", call, log, Returned(o.text, o.err),
                  [fs EXCEPT ![call.filePath] = File(o.bytes)],
                  touched \cup {Touch("writeFileSync", call.filePath)}, sync)

(***************************************************************************)
(* index.ts: memory_sync_files.                                            *)
(***************************************************************************)
\* the snapshot loop leaving out the shared files that are absent locally
RECURSIVE LocalSnapshot_SkipsAbsent(_, _)
LocalSnapshot_SkipsAbsent(sharedFiles, files) ==
  IF sharedFiles = <<>> THEN <<>>
  ELSE LET sf == Head(sharedFiles) IN
       (IF files[sf.filePath].exists
        THEN <<[filePath |-> sf.filePath,
                contentHash |-> computeMd5(files[sf.filePath].bytes),
                exists |-> TRUE]>>
        ELSE <<>>)
       \o LocalSnapshot_SkipsAbsent(Tail(sharedFiles), files)

\* the snapshot loop over sharedFiles
RECURSIVE LocalSnapshot(_, _)
LocalSnapshot(sharedFiles, files) ==
  IF sharedFiles = <<>> THEN <<>>
  ELSE LET sf == Head(sharedFiles) IN
       <<IF files[sf.filePath].exists
         THEN [filePath |-> sf.filePath,
               contentHash |-> computeMd5(files[sf.filePath].bytes),
               exists |-> TRUE]
         ELSE [filePath |-> sf.filePath, contentHash |-> Str(<<>>),
               exists |-> FALSE]>>
       \o LocalSnapshot(Tail(sharedFiles), files)

SnapshotTouches(sharedFiles, files) ==
  {Touch("existsSync", sharedFiles[i].filePath) : i \in 1..Len(sharedFiles)}
  \cup {Touch("readFileSync", sharedFiles[i].filePath) :
          i \in {j \in 1..Len(sharedFiles) : files[sharedFiles[j].filePath].exists}}

\* localFiles.find((f) => f.filePath === file.filePath)
RECURSIVE Find(_, _)
Find(localFiles, filePath) ==
  IF localFiles = <<>> THEN Undefined
  ELSE IF Head(localFiles).filePath = filePath THEN Head(localFiles)
  ELSE Find(Tail(localFiles), filePath)

\* local?.exists
LocalExists(local) == local # Undefined /\ local.exists

\* the loop body downloading whatever it does not upload
SyncAction_DownloadUnlessUpload(file, local) ==
  IF file.status = "upload_needed" /\ LocalExists(local) THEN "upload"
  ELSE "download"

\* the loop body without the override for files absent locally
SyncAction_NoOverride(file, local) ==
  IF file.status = "download_needed" THEN "download"
  ELSE IF file.status = "upload_needed" THEN "upload"
  ELSE "skip"

\* the loop body downloading on every status it does not know
SyncAction_UnknownDownloads(file, local) ==
  IF file.status = "upload_needed" /\ LocalExists(local) THEN "upload"
  ELSE IF file.status = "up_to_date" THEN "skip"
  ELSE "download"

\* the branch the loop body takes for one verdict
SyncAction(file, local) ==
  IF \/ file.status = "download_needed"
     \/ (file.status = "upload_needed" /\ ~LocalExists(local))
  THEN "download"
  ELSE IF file.status = "upload_needed" /\ LocalExists(local)
  THEN "upload"
  ELSE "skip"

\* The loop over syncRes.data.files from verdict i on, up to its next await,
\* an exception, or its end.
RECURSIVE SyncScan(_, _, _, _, _)
SyncScan(i, st, files, t, project) ==
  IF i > Len(st.verdicts)
  THEN [kind |-> "done", st |-> st, touched |-> t]
  ELSE LET file == st.verdicts[i]
           local == Find(st.localFiles, file.filePath)
           action == SyncAction(file, local)
           here == [st EXCEPT !.idx = i, !.attempted = @ \cup {i}]
       IN IF action = "download"
          THEN [kind |-> "request", st |-> here, touched |-> t,
                req |-> Request("GET /files/latest", project, file.filePath,
                                NoValue, i)]
          ELSE IF action = "upload"
          THEN LET t2 == t \cup {Touch("readFileSync", file.filePath)} IN
               IF ~files[file.filePath].exists
               THEN [kind |-> "thrown", st |-> here, touched |-> t2,
                     err |-> NoEntryError]
               ELSE LET enc == readAndEncodeFile(files[file.filePath].bytes) IN
                    IF enc.thrown
                    THEN [kind |-> "thrown", st |-> here, touched |-> t2,
                          err |-> SizeError]
                    ELSE [kind |-> "request", st |-> here, touched |-> t2,
                          req |-> Request("POST /files/store", project,
                                          file.filePath, StoreBody(enc), i)]
          ELSE SyncScan(i + 1, [st EXCEPT !.upToDate = @ + 1], files, t, project)

\* the counter lines of the summary: a counter that is 0 gets no line
SummaryLines(st) ==
  (IF st.downloaded # 0 THEN <<[n |-> st.downloaded, label |-> "downloaded"]>>
   ELSE <<>>)
  \o (IF st.uploaded # 0 THEN <<[n |-> st.uploaded, label |-> "uploaded"]>>
      ELSE <<>>)
  \o (IF st.upToDate # 0 THEN <<[n |-> st.upToDate, label |-> "up to date"]>>
      ELSE <<>>)

\* the summary whose header counts the verdicts of the server
SyncSummary_CountsVerdicts(st) ==
  [msg |-> "Synced shared file(s)", detail |-> "",
   count |-> Len(st.verdicts), downloaded |-> st.downloaded,
   uploaded |-> st.uploaded, upToDate |-> st.upToDate,
   lines |-> SummaryLines(st), results |-> st.results]

\* the text of the summary: the header with sharedFiles.length, the counter
\* lines, the per-file lines
SyncSummary(st) ==
  [msg |-> "Synced shared file(s)", detail |-> "",
   count |-> Len(st.sharedFiles), downloaded |-> st.downloaded,
   uploaded |-> st.uploaded, upToDate |-> st.upToDate,
   lines |-> SummaryLines(st), results |-> st.results]

\* the catch block sending a failed request once more
SyncFailed_RetryOnce(log, err, files, t, st) ==
  IF /\ log # <<>>
     /\ log[Len(log)].outcome = "failed"
     /\ (Len(log) = 1 \/ log[Len(log) - 1].outcome # "failed")
  THEN Step("await", call,
            Append(log, [log[Len(log)] EXCEPT !.outcome = "pending",
                                              !.err = NoValue]),
            NoValue, files, t, st)
  ELSE Step("done", call, log,
            Returned(CatchText("memory_sync_files", err), err), files, t, st)

\* the catch block of memory_sync_files: the handler returns
SyncFailed(log, err, files, t, st) ==
  Step("done", call, log, Returned(CatchText("memory_sync_files", err), err),
       files, t, st)

\* the loop starting the transfer of the next file without awaiting the
\* one it has just started
SyncProceed_TwoAtOnce(i, log, st, files, t) ==
  LET s == SyncScan(i, st, files, t, call.project) IN
  IF s.kind = "done"
  THEN Step("done", call, log, Returned(SyncSummary(s.st), NoValue), files,
            s.touched, s.st)
  ELSE IF s.kind = "thrown"
  THEN Step("done", call, log,
            Returned(CatchText("memory_sync_files", s.err), s.err), files,
            s.touched, s.st)
  ELSE LET s2 == SyncScan(s.st.idx + 1, s.st, files, s.touched, call.project) IN
       IF s2.kind = "request"
       THEN Step("await", [call EXCEPT !.step = "transfer"],
                 log \o <<s.req, s2.req>>, NoValue, files, s2.touched, s2.st)
       ELSE Step("await", [call EXCEPT !.step = "transfer"], Append(log, s.req),
                 NoValue, files, s.touched, s.st)

\* the handler continues with verdict i
SyncProceed(i, log, st, files, t) ==
  LET s == SyncScan(i, st, files, t, call.project) IN
  IF s.kind = "done"
  THEN Step("done", call, log, Returned(SyncSummary(s.st), NoValue), files,
            s.touched, s.st)
  ELSE IF s.kind = "thrown"
  THEN SyncFailed(log, s.err, files, s.touched, s.st)
  ELSE Step("await", [call EXCEPT !.step = "transfer"], Append(log, s.req),
            NoValue, files, s.touched, s.st)

\* the handler without the early return on an empty catalog
SyncOnShared_NoEmptyCheck(resp) ==
  /\ pc = "await" /\ call.tool = "memory_sync_files" /\ call.step = "first"
  /\ LET log == Settle(reqLog, resp) IN
     IF ~resp.ok THEN SyncFailed(log, resp.err, fs, touched, sync)
     ELSE LET localFiles == LocalSnapshot(resp.data, fs) IN
          Step("await", [call EXCEPT !.step = "status"],
               Append(log, Request("POST /files/sync", call.project, Undefined,
                        [files |-> [i \in 1..Len(localFiles) |->
                            [filePath |-> localFiles[i].filePath,
                             contentHash |-> localFiles[i].contentHash]]], 0)),
               NoValue, fs, touched \cup SnapshotTouches(resp.data, fs),
               [sync EXCEPT !.sharedFiles = resp.data, !.localFiles = localFiles])

\* the response to GET /files/shared
SyncOnShared(resp) ==
  /\ pc = "await" /\ call.tool = "memory_sync_files" /\ call.step = "first"
  /\ LET log == Settle(reqLog, resp) IN
     IF ~resp.ok THEN SyncFailed(log, resp.err, fs, touched, sync)
     ELSE IF Len(resp.data) = 0
     THEN Step("done", call, log,
               Returned(Text("No shared files", ""), NoValue), fs, touched, sync)
     ELSE LET localFiles == LocalSnapshot(resp.data, fs) IN
          Step("await", [call EXCEPT !.step = "status"],
               Append(log, Request("POST /files/sync", call.project, Undefined,
                        [files |-> [i \in 1..Len(localFiles) |->
                            [filePath |-> localFiles[i].filePath,
                             contentHash |-> localFiles[i].contentHash]]], 0)),
               NoValue, fs, touched \cup SnapshotTouches(resp.data, fs),
               [sync EXCEPT !.sharedFiles = resp.data, !.localFiles = localFiles])

\* the response to POST /files/sync
SyncOnStatus(resp) ==
  /\ pc = "await" /\ call.tool = "memory_sync_files" /\ call.step = "status"
  /\ LET log == Settle(reqLog, resp) IN
     IF ~resp.ok THEN SyncFailed(log, resp.err, fs, touched, sync)
     ELSE SyncProceed(1, log,
                      [sync EXCEPT !.verdicts = resp.data.files,
                                   !.gotVerdicts = TRUE],
                      fs, touched)

\* the download branch writing the content string as it came, without
\* decoding the 'base64:' form
SyncOnLatest_NoDecode(resp) ==
  /\ pc = "await" /\ call.tool = "memory_sync_files" /\ call.step = "transfer"
  /\ reqLog[Len(reqLog)].ep = "GET /files/latest"
  /\ LET log == Settle(reqLog, resp)
         filePath == sync.verdicts[sync.idx].filePath
         got == [idx |-> sync.idx, filePath |-> filePath, data |-> resp.data]
     IN IF ~resp.ok THEN SyncFailed(log, resp.err, fs, touched, sync)
        ELSE IF resp.data = Null
        THEN SyncProceed(sync.idx + 1, log,
               [sync EXCEPT !.fetched = Append(@, got)], fs, touched)
        ELSE SyncProceed(sync.idx + 1, log,
               [sync EXCEPT !.results = Append(@, <<"down", filePath>>),
                            !.downloaded = @ + 1,
                            !.fetched = Append(@, got)],
               [fs EXCEPT ![filePath] = File(Utf8Encode(resp.data.content))],
               touched \cup {Touch("writeFileSync", filePath)})

\* the response to the GET /files/latest of verdict sync.idx
SyncOnLatest(resp) ==
  /\ pc = "await" /\ call.tool = "memory_sync_files" /\ call.step = "transfer"
  /\ reqLog[Len(reqLog)].ep = "GET /files/latest"
  /\ LET log == Settle(reqLog, resp)
         filePath == sync.verdicts[sync.idx].filePath
         got == [idx |-> sync.idx, filePath |-> filePath, data |-> resp.data]
     IN IF ~resp.ok THEN SyncFailed(log, resp.err, fs, touched, sync)
        ELSE IF resp.data = Null
        THEN SyncProceed(sync.idx + 1, log,
               [sync EXCEPT !.fetched = Append(@, got)], fs, touched)
        ELSE SyncProceed(sync.idx + 1, log,
               [sync EXCEPT !.results = Append(@, <<"down", filePath>>),
                            !.downloaded = @ + 1,
                            !.fetched = Append(@, got)],
               [fs EXCEPT ![filePath] = File(writeDecodedFile(resp.data.content))],
               touched \cup {Touch("writeFileSync", filePath)})

\* the response to the POST /files/store of verdict sync.idx
SyncOnStore(resp) ==
  /\ pc = "await" /\ call.tool = "memory_sync_files" /\ call.step = "transfer"
  /\ reqLog[Len(reqLog)].ep = "POST /files/store"
  /\ LET log == Settle(reqLog, resp)
         filePath == sync.verdicts[sync.idx].filePath
     IN IF ~resp.ok THEN SyncFailed(log, resp.err, fs, touched, sync)
        ELSE SyncProceed(sync.idx + 1, log,
               [sync EXCEPT !.results = Append(@, <<"up", filePath>>),
                            !.uploaded = @ + 1],
               fs, touched)

(***************************************************************************)
(* Codec specification: a file holding B is encoded, the content decoded   *)
(* back into the file.                                                     *)
(***************************************************************************)
ByteAlphabet == {0, 65, 255}

RECURSIVE SeqsUpTo(_, _)
SeqsUpTo(S, n) ==
  IF n = 0 THEN {<<>>}
  ELSE LET shorter == SeqsUpTo(S, n - 1) IN
       shorter \cup {Append(s, x) : s \in {t \in shorter : Len(t) = n - 1}, x \in S}

CodecInputs ==
  {Pack(s) : s \in SeqsUpTo(ByteAlphabet, MaxLen)}
  \cup {Cat(BASE64_PREFIX, Pack(s)) :
          s \in {<<>>, <<81, 81, 61, 61>>, <<65, 65, 65, 65>>, <<33>>}}
  \cup {<<Run(65, MAX_FILE_SIZE)>>, <<Run(65, MAX_FILE_SIZE + 1)>>,
        <<Run(65, MAX_FILE_SIZE - 1), Run(255, 1)>>}

CodecIdle ==
  /\ cBytes = <<>>
  /\ cFile = <<>>
  /\ cEnc = NoValue
  /\ cPc = "unused"

MachineIdle ==
  /\ machineFile = Absent
  /\ machineId = NoValue
  /\ host = <<"h">>
  /\ mStarts = 0
  /\ mWrites = 0

\* no process is running, no command has been run, and the permission bits
\* are those the program gives to what it creates
HostIdle ==
  /\ sessionId = NoValue
  /\ claudeMd = Absent
  /\ cli = CliIdle
  /\ perms = PermsAsCreated(credFile, machineFile)
  /\ race = RaceIdle
  /\ login = LoginOff

EnvIdle ==
  /\ credFile = Absent
  /\ cwd = <<"/">>
  /\ gitOut = GitFails
  /\ MachineIdle
  /\ HostIdle

ResolverIdle ==
  /\ rExplicit = Undefined
  /\ rResult = NoValue

ClientIdle ==
  /\ apiOpts = Undefined
  /\ apiResult = NoValue

InitCodec ==
  /\ cBytes \in CodecInputs
  /\ cFile = cBytes
  /\ cEnc = NoValue
  /\ cPc = "written"
  /\ EnvIdle /\ ResolverIdle /\ ClientIdle /\ ToolsIdle

CodecEncode ==
  /\ cPc = "written"
  /\ LET r == readAndEncodeFile(cFile) IN
       /\ cEnc' = r
       /\ cPc' = IF r.thrown THEN "failed" ELSE "encoded"
  /\ UNCHANGED <<cBytes, cFile>>
  /\ UNCHANGED <<envVars, resolverVars, clientVars, toolVars>>

CodecDecode ==
  /\ cPc = "encoded"
  /\ cFile' = writeDecodedFile(cEnc.content)
  /\ cPc' = "decoded"
  /\ UNCHANGED <<cBytes, cEnc>>
  /\ UNCHANGED <<envVars, resolverVars, clientVars, toolVars>>

NextCodec == CodecEncode \/ CodecDecode

SpecCodec == InitCodec /\ [][NextCodec]_vars

(***************************************************************************)
(* Classification specification: isBinary applied to buffers with a zero   *)
(* byte on either side of the end of the sampling window.                  *)
(***************************************************************************)
Fillers == {65, 255}
ZeroOffsets == {0, 1, SAMPLE_SIZE - 2, SAMPLE_SIZE - 1, SAMPLE_SIZE, SAMPLE_SIZE + 1}

\* fill bytes with one zero byte at offset k, total bytes in all
OneZero(fill, k, total) ==
  Norm(<<Run(fill, k), Run(0, 1), Run(fill, total - k - 1)>>)

ClassifyInputs ==
  {Pack(s) : s \in SeqsUpTo(ByteAlphabet, MaxLen)}
  \cup {OneZero(f, k, total) :
          f \in Fillers, k \in ZeroOffsets,
          total \in {SAMPLE_SIZE + 2, 2 * SAMPLE_SIZE}}
  \cup {OneZero(f, k, k + 1) : f \in Fillers, k \in ZeroOffsets}
  \cup {<<Run(f, n)>> :
          f \in Fillers, n \in {SAMPLE_SIZE - 1, SAMPLE_SIZE, SAMPLE_SIZE + 1}}
  \cup {Norm(<<Run(f, SAMPLE_SIZE), Run(0, 1), Run(f, 7), Run(0, 2)>>) : f \in Fillers}

InitClassify ==
  /\ cBytes \in ClassifyInputs
  /\ cFile = cBytes
  /\ cEnc = NoValue
  /\ cPc = "written"
  /\ EnvIdle /\ ResolverIdle /\ ClientIdle /\ ToolsIdle

Classify ==
  /\ cPc = "written"
  /\ cEnc' = [binary |-> isBinary(cFile)]
  /\ cPc' = "classified"
  /\ UNCHANGED <<cBytes, cFile>>
  /\ UNCHANGED <<envVars, resolverVars, clientVars, toolVars>>

NextClassify == Classify

SpecClassify == InitClassify /\ [][NextClassify]_vars

(***************************************************************************)
(* Resolver specification: resolveProject applied in any environment.      *)
(***************************************************************************)
Url == <<"g", ":", "r">>
ExplicitArgs == {Undefined, Str(<<>>), Str(<<"p">>), Str(Url), Str(<<"/">>)}
GitRuns == {GitFails, GitPrints(<<"\n">>), GitPrints(Url \o <<"\n">>),
            GitPrints(<<"o", "\n">>)}
Dirs == {<<"/">>, <<"/", "w">>, <<"/", "w", "/", "p">>, <<"/", "p">>, <<"/", "w", "p">>}

InitResolve ==
  /\ cwd \in Dirs
  /\ gitOut \in GitRuns
  /\ credFile = Absent
  /\ MachineIdle /\ HostIdle
  /\ ResolverIdle /\ CodecIdle /\ ClientIdle /\ ToolsIdle

Resolve(explicit) ==
  /\ rResult = NoValue
  /\ rExplicit' = explicit
  /\ rResult' = resolveProject(explicit, gitOut, cwd)
  /\ UNCHANGED <<envVars, codecVars, clientVars, toolVars>>

NextResolve == \E explicit \in ExplicitArgs : Resolve(explicit)

SpecResolve == InitResolve /\ [][NextResolve]_vars

(***************************************************************************)
(* Client specification: createApiClient in any state of credentials.json. *)
(***************************************************************************)
ServerUrls == {Str(<<"h">>), Str(<<"h", "/">>), Str(<<"k">>)}
JsonValues ==
  {JNull, JFalse, JNumber(0), JNumber(5), JString(<<>>), JString(<<"x">>), JArray,
   JObject(Undefined, Undefined), JObject(Undefined, Str(<<"t">>)),
   JObject([n |-> 5], Str(<<"t">>))}
  \cup {JObject(u, t) : u \in ServerUrls, t \in {Undefined, Str(<<"t">>), Str(<<"s">>)}}
CredFiles == {Absent, Unreadable, Garbage} \cup {JsonFile(v) : v \in JsonValues}
ClientOptions == {Undefined, [timeout |-> 30000]}

InitClient ==
  /\ credFile \in CredFiles
  /\ cwd = <<"/">>
  /\ gitOut = GitFails
  /\ MachineIdle
  /\ sessionId = NoValue
  /\ claudeMd = Absent
  /\ cli = CliIdle
  /\ perms \in PermsFor(credFile, machineFile)
  /\ race = RaceIdle
  /\ login = LoginOff
  /\ ClientIdle /\ CodecIdle /\ ResolverIdle /\ ToolsIdle

CreateClient(options) ==
  /\ apiOpts' = options
  /\ apiResult' = createApiClient(credFile, options)
  /\ UNCHANGED <<envVars, codecVars, resolverVars, toolVars>>

\* The login subcommand once the token endpoint has answered: index.ts was
\* loaded (getOrCreateMachineId), the token is saved, the instructions are
\* added to CLAUDE.md if not present, and the process exits.
SERVER_URL == Str(<<"f">>)
Login(token) ==
  /\ cli.calls < MaxInstalls
  /\ \E suffix \in RandomSuffixes :
       LET m == getOrCreateMachineId(machineFile, host, suffix)
           loaded == IF m.wrote THEN saveMachineConfigModes(perms) ELSE perms
           e == ensureClaudeMdInstructions(claudeMd, FALSE)
       IN /\ machineFile' = m.file
          /\ mWrites' = IF m.wrote THEN mWrites + 1 ELSE mWrites
          /\ mStarts' = mStarts + 1
          /\ credFile' = saveCredentials(JObject(SERVER_URL, token))
          /\ perms' = saveCredentialsModes(loaded)
          /\ claudeMd' = e.file
          /\ cli' = CliRan("login", FALSE, e.result)
  /\ UNCHANGED <<cwd, gitOut, machineId, host, sessionId, race, login>>
  /\ UNCHANGED <<clientVars, codecVars, resolverVars, toolVars>>

\* The install subcommand: index.ts was loaded, the instructions are added
\* to CLAUDE.md, and the process exits.
Install(force) ==
  /\ cli.calls < MaxInstalls
  /\ \E suffix \in RandomSuffixes :
       LET m == getOrCreateMachineId(machineFile, host, suffix)
           e == ensureClaudeMdInstructions(claudeMd, force)
       IN /\ machineFile' = m.file
          /\ mWrites' = IF m.wrote THEN mWrites + 1 ELSE mWrites
          /\ mStarts' = mStarts + 1
          /\ perms' = IF m.wrote THEN saveMachineConfigModes(perms) ELSE perms
          /\ claudeMd' = e.file
          /\ cli' = CliRan("install", force, e.result)
  /\ UNCHANGED <<credFile, cwd, gitOut, machineId, host, sessionId, race, login>>
  /\ UNCHANGED <<clientVars, codecVars, resolverVars, toolVars>>

NextClient ==
  \/ \E options \in ClientOptions : CreateClient(options)
  \/ \E token \in {Undefined, Str(<<"t">>)} : Login(token)

SpecClient == InitClient /\ [][NextClient]_vars

(***************************************************************************)
(* Machine-identity specification: processes start one after another, each *)
(* calling getOrCreateMachineId once as index.ts is loaded, and exit; the   *)
(* host may be renamed in between.  Nothing else touches machine.json.     *)
(***************************************************************************)
MachineFiles ==
  {Absent, Garbage, JsonFile(JNull), JsonFile(JNumber(5)), JsonFile(JString(<<"x">>))}
  \cup {JsonFile(MObject(id, alias)) :
          id \in {Undefined, Str(<<>>), Str(<<"m">>), FreshId(<<"h">>, <<"1">>)},
          alias \in {Undefined, Str(<<"h">>)}}

InitMachine ==
  /\ machineFile \in MachineFiles
  /\ machineId = NoValue
  /\ host \in Hostnames
  /\ mStarts = 0
  /\ mWrites = 0
  /\ credFile = Absent
  /\ cwd = <<"/">>
  /\ gitOut = GitFails
  /\ sessionId = NoValue
  /\ claudeMd = Absent
  /\ cli = CliIdle
  /\ perms \in PermsFor(credFile, machineFile)
  /\ race = RaceIdle
  /\ login = LoginOff
  /\ CodecIdle /\ ResolverIdle /\ ClientIdle /\ ToolsIdle

\* what Date.now() may yield when a process starts
Times == {<<"7">>, <<"8">>}

\* the two constants of a new process: machineId = getOrCreateMachineId()
\* and sessionId
StartProcess(suffix) ==
  /\ machineId = NoValue
  /\ mStarts < MaxStarts
  /\ LET r == getOrCreateMachineId(machineFile, host, suffix) IN
       /\ machineId' = r.id
       /\ machineFile' = r.file
       /\ mWrites' = IF r.wrote THEN mWrites + 1 ELSE mWrites
       /\ perms' = IF r.wrote THEN saveMachineConfigModes(perms) ELSE perms
  /\ \E now \in Times : sessionId' = NewSessionId(now, <<"a">>)
  /\ mStarts' = mStarts + 1
  /\ UNCHANGED <<host, credFile, cwd, gitOut, claudeMd, cli, race, login>>
  /\ UNCHANGED <<codecVars, resolverVars, clientVars, toolVars>>

ExitProcess ==
  /\ machineId # NoValue
  /\ machineId' = NoValue
  /\ sessionId' = NoValue
  /\ UNCHANGED <<machineFile, host, mStarts, mWrites, credFile, cwd, gitOut,
                 claudeMd, cli, perms, race, login>>
  /\ UNCHANGED <<codecVars, resolverVars, clientVars, toolVars>>

RenameHost ==
  /\ \E h \in Hostnames \ {host} : host' = h
  /\ UNCHANGED <<machineFile, machineId, mStarts, mWrites, credFile, cwd, gitOut,
                 hostVars>>
  /\ UNCHANGED <<codecVars, resolverVars, clientVars, toolVars>>

NextMachine ==
  \/ \E suffix \in RandomSuffixes : StartProcess(suffix)
  \/ ExitProcess
  \/ RenameHost

SpecMachine == InitMachine /\ [][NextMachine]_vars

(***************************************************************************)
(* Install specification: install, install --force and successful logins   *)
(* run one after another on any CLAUDE.md.                                 *)
(***************************************************************************)
ClaudeFiles ==
  {Absent}
  \cup {TextFile(t) :
          t \in {<<>>, <<"x">>, <<"x", "\n">>, <<"#">>, <<"#", "x", "F">>,
                 <<"x", "#", "F">>, <<"#", "F", "\n", "x", "\n">>}}

InitInstall ==
  /\ claudeMd \in ClaudeFiles
  /\ credFile = Absent
  /\ cwd = <<"/">>
  /\ gitOut = GitFails
  /\ MachineIdle
  /\ sessionId = NoValue
  /\ cli = CliIdle
  /\ perms = PermsAsCreated(credFile, machineFile)
  /\ race = RaceIdle
  /\ login = LoginOff
  /\ CodecIdle /\ ResolverIdle /\ ClientIdle /\ ToolsIdle

NextInstall ==
  \/ \E force \in BOOLEAN : Install(force)
  \/ \E token \in {Str(<<"t">>)} : Login(token)

SpecInstall == InitInstall /\ [][NextInstall]_vars

(***************************************************************************)
(* Race specification: up to MaxProcs processes load index.ts at the same  *)
(* time.  getOrCreateMachineId is three steps: getMachineConfig, then the  *)
(* writeFileSync of saveMachineConfig opening the file (which empties it), *)
(* then its writing the text.                                              *)
(***************************************************************************)
InitRace ==
  /\ machineFile \in {Absent, Garbage,
                      JsonFile(MObject(Str(<<"m">>), Str(<<"h">>)))}
  /\ machineId = NoValue
  /\ host \in Hostnames
  /\ mStarts = 0
  /\ mWrites = 0
  /\ credFile = Absent
  /\ cwd = <<"/">>
  /\ gitOut = GitFails
  /\ sessionId = NoValue
  /\ claudeMd = Absent
  /\ cli = CliIdle
  /\ perms = PermsAsCreated(credFile, machineFile)
  /\ race = RaceIdle
  /\ login = LoginOff
  /\ CodecIdle /\ ResolverIdle /\ ClientIdle /\ ToolsIdle

RaceStep(file, p, proc, writers, modes, starts, writes) ==
  /\ machineFile' = file
  /\ race' = [procs |-> [race.procs EXCEPT ![p] = proc], writers |-> writers]
  /\ perms' = modes
  /\ mStarts' = starts
  /\ mWrites' = writes
  /\ UNCHANGED <<machineId, host, credFile, cwd, gitOut, sessionId, claudeMd, cli, login>>
  /\ UNCHANGED <<codecVars, resolverVars, clientVars, toolVars>>

\* process p calls getMachineConfig and returns the machineId it finds
RaceLoad(p) ==
  /\ race.procs[p].pc = "off"
  /\ LET config == getMachineConfig(machineFile)
         found == Truthy(ConfigMachineId(config))
     IN RaceStep(machineFile, p,
                 [pc |-> IF found THEN "running" ELSE "generate",
                  id |-> IF found THEN ConfigMachineId(config) ELSE NoValue,
                  seen |-> Len(race.writers), random |-> NoValue,
                  wrote |-> FALSE],
                 race.writers, perms, mStarts + 1, mWrites)

\* process p, having found none, makes its id and opens machine.json
RaceOpen(p, suffix) ==
  /\ race.procs[p].pc = "generate"
  /\ RaceStep(Garbage, p,
              [race.procs[p] EXCEPT !.pc = "writing", !.id = FreshId(host, suffix),
                                    !.random = Str(suffix)],
              race.writers, saveMachineConfigModes(perms), mStarts, mWrites)

\* process p writes its config and returns its id
RaceWrite(p) ==
  /\ race.procs[p].pc = "writing"
  /\ RaceStep(saveMachineConfig(MObject(race.procs[p].id, Str(host))), p,
              [race.procs[p] EXCEPT !.pc = "running", !.wrote = TRUE],
              Append(race.writers, [p |-> p, id |-> race.procs[p].id]),
              perms, mStarts, mWrites + 1)

NextRace ==
  \/ \E p \in Procs : RaceLoad(p)
  \/ \E p \in Procs, suffix \in RandomSuffixes : RaceOpen(p, suffix)
  \/ \E p \in Procs : RaceWrite(p)

SpecRace == InitRace /\ [][NextRace]_vars

(***************************************************************************)
(* Tool-server specification: the host sends one invocation at a time, the *)
(* remote server answers each request as it pleases.                       *)
(***************************************************************************)
TextBytes == Pack(<<65>>)
BinaryBytes == Pack(<<0, 65>>)
OversizeBytes == <<Run(65, MAX_FILE_SIZE + 1)>>

ToolCredFiles ==
  {Absent, Garbage, JsonFile(JObject(Undefined, Str(<<"t">>))),
   JsonFile(JObject(Str(<<"h">>), Str(<<"t">>)))}
ToolDirs == {<<<<"/">>, GitFails>>, <<<<"/", "w">>, GitFails>>,
             <<<<"/">>, GitPrints(Url \o <<"\n">>)>>}
ToolFiles ==
  {f \in [Paths -> {Absent, File(TextBytes), File(BinaryBytes), File(OversizeBytes)}] :
     f["d/b.bin"] # File(TextBytes)}
ProjectArgs == {Undefined, Str(<<>>), Str(<<"p">>)}
SessionArgs == {Undefined, Str(<<>>), Str(<<"s">>)}

\* index.ts has been loaded by the process that serves the tools: on a
\* machine without machine.json it has created the file, and it holds its
\* two constants
ProcessLoaded ==
  LET r == getOrCreateMachineId(Absent, <<"h">>, <<"1">>) IN
  /\ machineFile = r.file
  /\ machineId = r.id
  /\ host = <<"h">>
  /\ mStarts = 1
  /\ mWrites = 1
  /\ sessionId = NewSessionId(<<"7">>, <<"a">>)
  /\ claudeMd = Absent
  /\ cli = CliIdle
  /\ perms = PermsAsCreated(credFile, machineFile)
  /\ race = RaceIdle
  /\ login = LoginOff

Init ==
  /\ credFile \in ToolCredFiles
  /\ \E d \in ToolDirs : cwd = d[1] /\ gitOut = d[2]
  /\ fs \in ToolFiles
  /\ pc = "idle"
  /\ call = NoValue
  /\ reqLog = <<>>
  /\ sync = SyncIdle
  /\ result = NoValue
  /\ touched = {}
  /\ ServerIdle
  /\ ProcessLoaded
  /\ CodecIdle /\ ResolverIdle /\ ClientIdle

\* what the remote server may answer
Ok(data) == [ok |-> TRUE, data |-> data]
Failures ==
  {[ok |-> FALSE, err |-> e] :
     e \in {HttpError("server message"), HttpError(""), NetworkError}}
Statuses == {"up_to_date", "download_needed", "upload_needed", "conflict"}
Verdicts == [filePath : Paths, status : Statuses]
VerdictLists(n) == UNION {[1..k -> Verdicts] : k \in 0..n}
SharedLists ==
  {<<>>} \cup {<<[filePath |-> p]>> : p \in Paths}
  \cup {<<[filePath |-> pq[1]], [filePath |-> pq[2]]>> :
          pq \in {x \in Paths \X Paths : x[1] # x[2]}}
StoredVersions ==
  {[content |-> readAndEncodeFile(b).content,
    contentHash |-> readAndEncodeFile(b).hash] : b \in {Pack(<<66>>), Pack(<<0, 66>>)}}
EntryLists == {[length |-> 0], [length |-> 1]}
\* what GET /files/latest may return to memory_restore_file: also a version
\* equal to a file the machine holds
RestorableVersions ==
  StoredVersions
  \cup {[content |-> readAndEncodeFile(TextBytes).content,
         contentHash |-> readAndEncodeFile(TextBytes).hash]}

memory_log ==
  /\ UNCHANGED serverVars
  /\ \E e \in ProjectArgs, sid \in SessionArgs :
        Invoke("memory_log", e, Undefined, sid)

memory_get_recent ==
  /\ UNCHANGED serverVars
  /\ \E e \in ProjectArgs : Invoke("memory_get_recent", e, Undefined, Undefined)

memory_get_sessions ==
  /\ UNCHANGED serverVars
  /\ \E e \in ProjectArgs : Invoke("memory_get_sessions", e, Undefined, Undefined)

memory_search ==
  /\ UNCHANGED serverVars
  /\ \E e \in ProjectArgs : Invoke("memory_search", e, Undefined, Undefined)

memory_store_file ==
  /\ UNCHANGED serverVars
  /\ \E e \in ProjectArgs, p \in Paths : Invoke("memory_store_file", e, p, Undefined)

memory_restore_file ==
  /\ UNCHANGED serverVars
  /\ \E e \in ProjectArgs, p \in Paths : Invoke("memory_restore_file", e, p, Undefined)

memory_share_file ==
  /\ UNCHANGED serverVars
  /\ \E e \in ProjectArgs, p \in Paths : Invoke("memory_share_file", e, p, Undefined)

memory_unshare_file ==
  /\ UNCHANGED serverVars
  /\ \E e \in ProjectArgs, p \in Paths : Invoke("memory_unshare_file", e, p, Undefined)

memory_sync_files ==
  /\ UNCHANGED serverVars
  /\ \E e \in ProjectArgs : Invoke("memory_sync_files", e, Undefined, Undefined)

memory_log_reply ==
  /\ UNCHANGED serverVars
  /\ \E resp \in Failures \cup {Ok(Undefined)} : Reply("memory_log", resp)

memory_get_recent_reply ==
  /\ UNCHANGED serverVars
  /\ \E resp \in Failures \cup {Ok(d) : d \in EntryLists} : Reply("memory_get_recent", resp)

memory_get_sessions_reply ==
  /\ UNCHANGED serverVars
  /\ \E resp \in Failures \cup {Ok(d) : d \in EntryLists} : Reply("memory_get_sessions", resp)

memory_search_reply ==
  /\ UNCHANGED serverVars
  /\ \E resp \in Failures \cup {Ok(d) : d \in EntryLists} : Reply("memory_search", resp)

memory_store_file_reply ==
  /\ UNCHANGED serverVars
  /\ \E resp \in Failures \cup {Ok([deduplicated |-> d]) : d \in BOOLEAN} :
        Reply("memory_store_file", resp)

memory_restore_file_reply ==
  /\ UNCHANGED serverVars
  /\ \E resp \in Failures \cup {Ok(Null)} \cup {Ok(v) : v \in RestorableVersions} :
        Reply("memory_restore_file", resp)

memory_share_file_reply ==
  /\ UNCHANGED serverVars
  /\ \E resp \in Failures \cup {Ok(Undefined)} : Reply("memory_share_file", resp)

memory_unshare_file_reply ==
  /\ UNCHANGED serverVars
  /\ \E resp \in Failures \cup {Ok(Undefined)} : Reply("memory_unshare_file", resp)

sync_shared_reply ==
  /\ UNCHANGED serverVars
  /\ \E resp \in Failures \cup {Ok(l) : l \in SharedLists} : SyncOnShared(resp)

sync_status_reply ==
  /\ UNCHANGED serverVars
  /\ \E resp \in Failures
          \cup {Ok([files |-> l]) : l \in VerdictLists(Len(sync.localFiles))} :
        SyncOnStatus(resp)

sync_latest_reply ==
  /\ UNCHANGED serverVars
  /\ \E resp \in Failures \cup {Ok(Null)} \cup {Ok(v) : v \in StoredVersions} :
        SyncOnLatest(resp)

sync_store_reply ==
  /\ UNCHANGED serverVars
  /\ \E resp \in Failures \cup {Ok([deduplicated |-> d]) : d \in BOOLEAN} :
        SyncOnStore(resp)

serve == Serve /\ UNCHANGED serverVars

Next ==
  \/ memory_log \/ memory_log_reply
  \/ memory_get_recent \/ memory_get_recent_reply
  \/ memory_get_sessions \/ memory_get_sessions_reply
  \/ memory_search \/ memory_search_reply
  \/ memory_store_file \/ memory_store_file_reply
  \/ memory_restore_file \/ memory_restore_file_reply
  \/ memory_share_file \/ memory_share_file_reply
  \/ memory_unshare_file \/ memory_unshare_file_reply
  \/ memory_sync_files
  \/ sync_shared_reply \/ sync_status_reply
  \/ sync_latest_reply \/ sync_store_reply
  \/ serve

Spec == Init /\ [][Next]_vars

(***************************************************************************)
(* Two-run specification: memory_sync_files run twice against a server     *)
(* that answers every request and derives each verdict from a comparison   *)
(* of the submitted hash with the hash of its latest stored version.       *)
(* Nothing but the plugin changes the local files or the store.            *)
(***************************************************************************)
InvalidUtf8Bytes == Pack(<<255>>)
PrefixedTextBytes == Cat(BASE64_PREFIX, Pack(<<81, 81, 61, 61>>))

\* a version another machine stored with memory_store_file
StoredFrom(bytes) ==
  [stored |-> TRUE,
   content |-> readAndEncodeFile(bytes).content,
   contentHash |-> readAndEncodeFile(bytes).hash]

Catalog == <<[filePath |-> "a.txt"], [filePath |-> "d/b.bin"]>>

InitTwoRuns ==
  /\ credFile = JsonFile(JObject(Str(<<"h">>), Str(<<"t">>)))
  /\ cwd = <<"/", "w">>
  /\ gitOut = GitFails
  /\ fs \in [Paths -> {Absent, File(TextBytes), File(BinaryBytes)}]
  /\ serverFiles \in [Paths -> {StoredFrom(b) :
                    b \in {TextBytes, BinaryBytes, InvalidUtf8Bytes, PrefixedTextBytes}}]
  /\ runNo = 0
  /\ prevRun = <<>>
  /\ pc = "idle"
  /\ call = NoValue
  /\ reqLog = <<>>
  /\ sync = SyncIdle
  /\ result = NoValue
  /\ touched = {}
  /\ ProcessLoaded
  /\ CodecIdle /\ ResolverIdle /\ ClientIdle

\* the verdicts of the hash-comparing server: up_to_date exactly when the
\* hashes agree, otherwise one of the two transfers
HonestVerdictLists(files) ==
  {l \in [1..Len(files) -> Verdicts] :
     \A i \in 1..Len(files) :
        /\ l[i].filePath = files[i].filePath
        /\ l[i].status \in {"up_to_date", "download_needed", "upload_needed"}
        /\ l[i].status = "up_to_date" <=>
             (/\ serverFiles[files[i].filePath].stored
              /\ serverFiles[files[i].filePath].contentHash = files[i].contentHash)}

LatestOf(filePath) ==
  IF serverFiles[filePath].stored
  THEN [content |-> serverFiles[filePath].content,
        contentHash |-> serverFiles[filePath].contentHash]
  ELSE Null

run_sync ==
  /\ runNo < 2
  /\ Invoke("memory_sync_files", Undefined, Undefined, Undefined)
  /\ runNo' = runNo + 1
  /\ UNCHANGED <<serverFiles, prevRun>>

run_shared ==
  /\ SyncOnShared(Ok(Catalog))
  /\ UNCHANGED serverVars

run_status ==
  /\ pc = "await" /\ call.step = "status"
  /\ \E l \in HonestVerdictLists(reqLog[Len(reqLog)].body.files) :
        SyncOnStatus(Ok([files |-> l]))
  /\ UNCHANGED serverVars

run_latest ==
  /\ pc = "await"
  /\ SyncOnLatest(Ok(LatestOf(reqLog[Len(reqLog)].filePath)))
  /\ UNCHANGED serverVars

run_store ==
  /\ pc = "await"
  /\ LET req == reqLog[Len(reqLog)] IN
     /\ SyncOnStore(Ok([deduplicated |->
            serverFiles[req.filePath].stored
            /\ serverFiles[req.filePath].contentHash = req.body.contentHash]))
     /\ serverFiles' = [serverFiles EXCEPT ![req.filePath] =
                     [stored |-> TRUE, content |-> req.body.content,
                      contentHash |-> req.body.contentHash]]
  /\ UNCHANGED <<runNo, prevRun>>

run_served ==
  /\ Serve
  /\ prevRun' = sync.results
  /\ UNCHANGED <<serverFiles, runNo>>

NextTwoRuns ==
  \/ run_sync \/ run_shared \/ run_status \/ run_latest \/ run_store
  \/ run_served

SpecTwoRuns == InitTwoRuns /\ [][NextTwoRuns]_vars

(***************************************************************************)
(* Edited-files specification: memory_sync_files while another program     *)
(* rewrites or deletes the shared files between the steps of the handler:  *)
(* the handler reads a file once for the snapshot and once more for the    *)
(* upload, with two awaits in between.                                     *)
(***************************************************************************)
EditedFiles ==
  {Absent, File(TextBytes), File(BinaryBytes), File(InvalidUtf8Bytes),
   File(PrefixedTextBytes)}

InitEdits ==
  /\ credFile = JsonFile(JObject(Str(<<"h">>), Str(<<"t">>)))
  /\ cwd = <<"/", "w">>
  /\ gitOut = GitFails
  /\ fs \in [Paths -> {Absent, File(TextBytes), File(BinaryBytes)}]
  /\ pc = "idle"
  /\ call = NoValue
  /\ reqLog = <<>>
  /\ sync = SyncIdle
  /\ result = NoValue
  /\ touched = {}
  /\ ServerIdle
  /\ ProcessLoaded
  /\ CodecIdle /\ ResolverIdle /\ ClientIdle

\* one verdict for each shared file, in the order of the catalog
VerdictsInOrder ==
  {l \in [1..Len(Catalog) -> Verdicts] :
     \A i \in 1..Len(Catalog) :
        /\ l[i].filePath = Catalog[i].filePath
        /\ l[i].status \in {"up_to_date", "download_needed", "upload_needed"}}

edit_sync ==
  /\ Invoke("memory_sync_files", Undefined, Undefined, Undefined)
  /\ UNCHANGED serverVars

edit_shared ==
  /\ SyncOnShared(Ok(Catalog))
  /\ UNCHANGED serverVars

edit_status ==
  /\ \E l \in VerdictsInOrder : SyncOnStatus(Ok([files |-> l]))
  /\ UNCHANGED serverVars

edit_latest ==
  /\ \E resp \in {Ok(Null)} \cup {Ok(v) : v \in StoredVersions} : SyncOnLatest(resp)
  /\ UNCHANGED serverVars

edit_store ==
  /\ \E resp \in {[ok |-> FALSE, err |-> NetworkError], Ok([deduplicated |-> FALSE])} :
        SyncOnStore(resp)
  /\ UNCHANGED serverVars

\* another program writes or deletes a shared file while the handler awaits
\* a response
edit_local ==
  /\ pc = "await"
  /\ \E p \in Paths, f \in EditedFiles :
        /\ f # fs[p]
        /\ fs' = [fs EXCEPT ![p] = f]
  /\ UNCHANGED <<pc, call, reqLog, sync, result, touched>>
  /\ UNCHANGED <<envVars, codecVars, resolverVars, clientVars, serverVars>>

edit_served == Serve /\ UNCHANGED serverVars

NextEdits ==
  \/ edit_sync \/ edit_shared \/ edit_status \/ edit_latest \/ edit_store
  \/ edit_local \/ edit_served

SpecEdits == InitEdits /\ [][NextEdits]_vars

(***************************************************************************)
(* Login specification: the device login of the login subcommand, one      *)
(* step for each await: the request of the device code, the 5 s timer, and *)
(* the request to the token endpoint.                                      *)
(***************************************************************************)
POLL_INTERVAL == 5000
MaxExpiresIn == 11

\* expires_in of the device code response, in seconds, or NaN when the
\* response has no such number
ExpiresIn == {NotANumber} \cup {Num(e) : e \in 0..MaxExpiresIn}
CodeAnswers ==
  {Ok([expires_in |-> e]) : e \in ExpiresIn}
  \cup {[ok |-> FALSE, err |-> HttpError("server message")],
        [ok |-> FALSE, err |-> NetworkError]}
TokenAnswers ==
  {Ok([access_token |-> Str(<<"t">>)]), Ok([access_token |-> Undefined]),
   Ok(Undefined),
   [ok |-> FALSE, err |-> HttpError("authorization_pending")],
   [ok |-> FALSE, err |-> HttpError("expired_token")],
   [ok |-> FALSE, err |-> HttpError("server message")],
   [ok |-> FALSE, err |-> HttpError("")],
   [ok |-> FALSE, err |-> NetworkError]}
\* how long the token endpoint takes to answer, in ms
Latencies == {0, 1000}

InitLogin ==
  /\ credFile \in {Absent, JsonFile(JObject(SERVER_URL, Str(<<"o">>)))}
  /\ claudeMd \in {Absent, TextFile(<<"x">>), TextFile(FOREVER_MARKER)}
  /\ cwd = <<"/">>
  /\ gitOut = GitFails
  /\ MachineIdle
  /\ sessionId = NoValue
  /\ cli = CliIdle
  /\ perms = PermsAsCreated(credFile, machineFile)
  /\ race = RaceIdle
  /\ \E locked \in BOOLEAN : login = [LoginOff EXCEPT !.mdLocked = locked]
  /\ CodecIdle /\ ResolverIdle /\ ClientIdle /\ ToolsIdle

\* process.exit(code) after the message on the console
LoginExit(l, code, message) ==
  [l EXCEPT !.pc = "exited", !.exit = code, !.message = message]

\* const deadline = Date.now() + expires_in * 1000
Deadline(now, expires_in) ==
  IF expires_in.nan THEN NotANumber ELSE Num(now + expires_in.n * 1000)

\* the head of the while loop: into the timer, or past the loop to the
\* exit with 'Code expired'
LoginLoop(l) ==
  IF Before(l.now, l.deadline)
  THEN [l EXCEPT !.pc = "sleep"]
  ELSE LoginExit(l, 1, "Code expired. Please run login again.")

\* the command starts: index.ts is loaded (getOrCreateMachineId) and the
\* device code is requested
LoginStart ==
  /\ login.pc = "off"
  /\ \E suffix \in RandomSuffixes :
       LET m == getOrCreateMachineId(machineFile, host, suffix) IN
       /\ machineFile' = m.file
       /\ mWrites' = IF m.wrote THEN mWrites + 1 ELSE mWrites
       /\ mStarts' = mStarts + 1
       /\ perms' = IF m.wrote THEN saveMachineConfigModes(perms) ELSE perms
  /\ login' = [login EXCEPT !.pc = "code", !.before = credFile]
  /\ UNCHANGED <<credFile, cwd, gitOut, machineId, host, sessionId, claudeMd,
                 cli, race>>
  /\ UNCHANGED <<clientVars, codecVars, resolverVars, toolVars>>

\* the response to POST /api/auth/device/code
LoginOnCode(resp) ==
  /\ login.pc = "code"
  /\ login' = IF ~resp.ok
              THEN LoginExit(login, 1, "Login failed")
              ELSE LoginLoop([login EXCEPT !.deadline =
                                Deadline(login.now, resp.data.expires_in)])
  /\ UNCHANGED <<credFile, cwd, gitOut, machineVars, sessionId, claudeMd, cli,
                 perms, race>>
  /\ UNCHANGED <<clientVars, codecVars, resolverVars, toolVars>>

\* the timer of 5000 ms has fired: the token endpoint is asked
LoginWake ==
  /\ login.pc = "sleep"
  /\ login' = [login EXCEPT !.pc = "token", !.now = @ + POLL_INTERVAL,
                            !.polls = @ + 1]
  /\ UNCHANGED <<credFile, cwd, gitOut, machineVars, sessionId, claudeMd, cli,
                 perms, race>>
  /\ UNCHANGED <<clientVars, codecVars, resolverVars, toolVars>>

\* the token endpoint has answered after latency ms.  On a response the
\* credentials are saved, the instructions are added to CLAUDE.md, and the
\* process exits with 0; whatever is thrown on the way (the request error,
\* the TypeError on a response without body, the error of appendFileSync
\* on a CLAUDE.md that cannot be written) is examined by the same catch.
LoginOnToken(resp, latency) ==
  /\ login.pc = "token"
  /\ LET l == [login EXCEPT !.now = @ + latency]
         msg == IF ~resp.ok /\ resp.err.response THEN resp.err.bodyMessage ELSE ""
     IN IF resp.ok /\ resp.data # Undefined
        THEN LET e == ensureClaudeMdInstructions(claudeMd, FALSE)
                 thrown == login.mdLocked /\ e.result = "added"
             IN /\ credFile' = saveCredentials(JObject(SERVER_URL, resp.data.access_token))
                /\ perms' = saveCredentialsModes(perms)
                /\ claudeMd' = IF thrown THEN claudeMd ELSE e.file
                /\ cli' = IF thrown THEN cli ELSE CliRan("login", FALSE, e.result)
                /\ login' = IF thrown
                            THEN LoginExit([l EXCEPT !.last = "ok"], 1, "Login failed")
                            ELSE LoginExit([l EXCEPT !.last = "ok"], 0, "Authenticated")
        ELSE /\ login' =
                  IF resp.ok
                  THEN LoginExit([l EXCEPT !.last = "empty"], 1, "Login failed")
                  ELSE IF msg = "authorization_pending"
                  THEN LoginLoop([l EXCEPT !.last = "pending"])
                  ELSE IF msg = "expired_token"
                  THEN LoginExit([l EXCEPT !.last = "expired"], 1,
                                 "Code expired. Please run login again.")
                  ELSE LoginExit([l EXCEPT !.last = "error"], 1, "Login failed")
             /\ UNCHANGED <<credFile, perms, claudeMd, cli>>
  /\ UNCHANGED <<cwd, gitOut, machineVars, sessionId, race>>
  /\ UNCHANGED <<clientVars, codecVars, resolverVars, toolVars>>

NextLogin ==
  \/ LoginStart
  \/ \E resp \in CodeAnswers : LoginOnCode(resp)
  \/ LoginWake
  \/ \E resp \in TokenAnswers, latency \in Latencies : LoginOnToken(resp, latency)

SpecLogin == InitLogin /\ [][NextLogin]_vars

\* the timer fires and every request is answered or fails in the end
SpecLoginFair == SpecLogin /\ WF_vars(NextLogin)

(***************************************************************************)
(* Properties.                                                             *)
(***************************************************************************)
InSync == call # NoValue /\ call.tool = "memory_sync_files"

\* the snapshot of the running sync says the file exists
SnapshotExists(filePath) == LocalExists(Find(sync.localFiles, filePath))

\* the loop of the running sync has dealt with verdict i
Reached(i) ==
  /\ sync.gotVerdicts
  /\ i \in 1..Len(sync.verdicts)
  /\ \/ i <= sync.idx
     \/ pc = "done" /\ result.kind = "text" /\ result.err = NoValue

\* C1: a verdict upload_needed for a path the snapshot found absent leads
\* to a GET /files/latest for that path, and no POST /files/store is issued
\* during a sync for a path the snapshot found absent
C1_AbsentIsDownloaded ==
  InSync =>
    /\ \A k \in 1..Len(reqLog) :
          reqLog[k].ep = "POST /files/store" => SnapshotExists(reqLog[k].filePath)
    /\ \A i \in 1..Len(sync.verdicts) :
          (/\ Reached(i)
           /\ sync.verdicts[i].status = "upload_needed"
           /\ ~SnapshotExists(sync.verdicts[i].filePath))
          => \E k \in 1..Len(reqLog) :
                /\ reqLog[k].ep = "GET /files/latest"
                /\ reqLog[k].idx = i
                /\ reqLog[k].filePath = sync.verdicts[i].filePath

C1_Witness ==
  /\ InSync
  /\ \E k \in 1..Len(reqLog) :
        /\ reqLog[k].ep = "GET /files/latest"
        /\ sync.verdicts[reqLog[k].idx].status = "upload_needed"
        /\ ~SnapshotExists(reqLog[k].filePath)
        /\ reqLog[k].outcome = "ok"

\* C2: when a sync invocation has ended, every verdict that called for a
\* download or an upload has had its transfer attempted
C2_SiblingsAttempted ==
  (InSync /\ pc = "done" /\ sync.gotVerdicts) =>
    \A i \in 1..Len(sync.verdicts) :
       SyncAction(sync.verdicts[i],
                  Find(sync.localFiles, sync.verdicts[i].filePath)) # "skip"
       => i \in sync.attempted

\* C3: the second of two syncs against the hash-comparing server transfers
\* no file the first one transferred
C3_SecondRunIdle ==
  (runNo = 2 /\ InSync) =>
    \A k \in 1..Len(reqLog) :
       reqLog[k].ep \in {"GET /files/latest", "POST /files/store"}
       => \A j \in 1..Len(prevRun) : prevRun[j][2] # reqLog[k].filePath

\* C4: after write B, readAndEncodeFile, writeDecodedFile the file holds B
C4_RoundTrip == cPc = "decoded" => cFile = cBytes

\* C5: when resolveProject yields nothing the tool returns the 'Could not
\* detect project' text without any request or file access, and no request
\* carries an empty or null project
C5_NoProjectShortCircuits ==
  (call # NoValue) =>
    /\ (pc = "done" /\ call.project # NoValue /\ ~Truthy(call.project)) =>
          /\ result = Returned(NO_PROJECT, NoValue)
          /\ reqLog = <<>>
          /\ touched = {}
    /\ \A k \in 1..Len(reqLog) :
          /\ reqLog[k].project # Null
          /\ reqLog[k].project # Str(<<>>)
          /\ ResolvesProject(call.tool) => Truthy(reqLog[k].project)

C5_Witness ==
  /\ pc = "done"
  /\ call.tool = "memory_sync_files"
  /\ call.project = Null
  /\ result = Returned(NO_PROJECT, NoValue)

\* no credentials are stored: the file is absent, unreadable, not JSON, or
\* holds a value JavaScript treats as false
NoCredentials ==
  IF ~credFile.exists THEN TRUE
  ELSE IF ~credFile.readable THEN TRUE
  ELSE IF ~credFile.json THEN TRUE
  ELSE credFile.value.falsy

\* C6: with no credentials stored every tool returns the 'Not authenticated'
\* text and does nothing else: no request, no project resolution, no file
\* access; the authentication check comes before the project check
C6_UnauthenticatedShortCircuits ==
  (pc = "done" /\ NoCredentials) =>
    /\ result = Returned(NOT_AUTHENTICATED, NoValue)
    /\ reqLog = <<>>
    /\ touched = {}
    /\ call.project = NoValue

C6_Witness ==
  /\ pc = "done"
  /\ NoCredentials
  /\ cwd = <<"/">> /\ gitOut = GitFails /\ call.explicit = Undefined
  /\ call.tool = "memory_unshare_file"
  /\ result = Returned(NOT_AUTHENTICATED, NoValue)

\* usable credentials: an object with a string serverUrl and a string token
UsableCredentials ==
  IF ~credFile.exists THEN FALSE
  ELSE IF ~credFile.readable THEN FALSE
  ELSE IF ~credFile.json THEN FALSE
  ELSE IF credFile.value.type # "object" THEN FALSE
  ELSE IsStr(credFile.value.serverUrl) /\ IsStr(credFile.value.token)

\* C7: createApiClient never throws, and returns null whenever no usable
\* credentials are stored
C7_NeverRaises ==
  apiResult # NoValue =>
    /\ ~HasThrown(apiResult)
    /\ ~UsableCredentials => apiResult = Null

\* C8: every tool invocation ends by returning a text result, no exception
\* reaches the protocol layer
C8_AlwaysTextResult == pc = "done" => result.kind = "text"

\* C9: when the last request of an invocation failed, the returned text
\* carries the message of the server's error body if there is one, and the
\* transport error text only if there is none
C9_ServerMessageSurfaced ==
  (pc = "done" /\ reqLog # <<>> /\ reqLog[Len(reqLog)].outcome = "failed") =>
    LET err == reqLog[Len(reqLog)].err IN
    /\ result.kind = "text"
    /\ err.bodyMessage # "" => result.text.detail = err.bodyMessage
    /\ err.bodyMessage = "" => result.text.detail = err.message

\* the URL git printed, if it printed one: its output without the newline
OriginUrl ==
  IF gitOut.ok /\ Len(gitOut.stdout) > 1
  THEN SubSeq(gitOut.stdout, 1, Len(gitOut.stdout) - 1)
  ELSE <<>>

\* C10: resolveProject returns the explicit argument when it is non-empty,
\* else the origin URL when git reports one, else the base name of the
\* working directory, and null exactly when none of these exists
C10_Precedence ==
  rResult # NoValue =>
    /\ Truthy(rExplicit) => rResult = rExplicit
    /\ (~Truthy(rExplicit) /\ OriginUrl # <<>>) => rResult = Str(OriginUrl)
    /\ (~Truthy(rExplicit) /\ OriginUrl = <<>> /\ cwd # <<"/">>) =>
          /\ IsStr(rResult)
          /\ rResult.str # <<>>
          /\ \A i \in 1..Len(rResult.str) : rResult.str[i] # "/"
          /\ Len(cwd) > Len(rResult.str)
          /\ SubSeq(cwd, Len(cwd) - Len(rResult.str) + 1, Len(cwd)) = rResult.str
          /\ cwd[Len(cwd) - Len(rResult.str)] = "/"
    /\ rResult = Null <=>
          (~Truthy(rExplicit) /\ OriginUrl = <<>> /\ cwd = <<"/">>)

C10_Witness ==
  /\ rResult # NoValue
  /\ rExplicit = Str(<<>>)
  /\ OriginUrl = <<>>
  /\ cwd = <<"/", "w", "/", "p">>
  /\ rResult = Str(<<"p">>)

\* C11: readAndEncodeFile fails exactly when the file is longer than
\* 1,048,576 bytes (a file of exactly that length is encoded, one byte more
\* is refused); a failure yields neither content nor hash, a success yields
\* both and the length of the file
C11_SizeBoundary ==
  cPc \in {"encoded", "failed", "decoded"} =>
    /\ cEnc.thrown <=> BufLen(cBytes) > 1048576
    /\ cEnc.thrown => DOMAIN cEnc = {"thrown"}
    /\ ~cEnc.thrown =>
          /\ {"content", "hash", "size"} \subseteq DOMAIN cEnc
          /\ cEnc.size = BufLen(cBytes)

C11_Witness ==
  /\ cPc = "encoded"
  /\ BufLen(cBytes) = 1048576
  /\ ~cEnc.thrown
  /\ cEnc.size = 1048576

\* a zero byte lies at some offset below limit; off is the offset of the
\* first byte of buf
RECURSIVE ZeroBelow(_, _, _)
ZeroBelow(buf, off, limit) ==
  IF buf = <<>> \/ off >= limit THEN FALSE
  ELSE IF Head(buf).b = 0 THEN TRUE
  ELSE ZeroBelow(Tail(buf), off + Head(buf).n, limit)

\* C12: isBinary says binary exactly when a zero byte lies at one of the
\* offsets 0..8191 (a zero at 8,191 makes the buffer binary, at 8,192 it
\* does not; shorter buffers are judged whole, the empty one is text)
C12_SamplingWindow ==
  cPc = "classified" => (cEnc.binary <=> ZeroBelow(cBytes, 0, 8192))

C12_Witness ==
  /\ cPc = "classified"
  /\ cBytes = <<Run(65, 8191), Run(0, 1), Run(65, 8192)>>
  /\ cEnc.binary

\* the sync summary has been returned (the handler did not end in its catch)
SyncSucceeded ==
  InSync /\ pc = "done" /\ result.kind = "text" /\ result.err = NoValue
         /\ sync.gotVerdicts

\* C13: when GET /files/latest returns no content for a path to download,
\* the loop goes on with the next verdict, nothing is written for that path
\* (a write to it stems from a response that did carry content), and the
\* summary returned to the caller names the path in its per-file lines
C13_MissingContentReported ==
  InSync =>
    \A k \in 1..Len(sync.fetched) :
       sync.fetched[k].data = Null =>
         /\ \/ sync.idx > sync.fetched[k].idx
            \/ SyncSucceeded
         /\ Touch("writeFileSync", sync.fetched[k].filePath) \in touched =>
               \E j \in 1..Len(sync.fetched) :
                  /\ sync.fetched[j].filePath = sync.fetched[k].filePath
                  /\ sync.fetched[j].data # Null
         /\ SyncSucceeded =>
               \E j \in 1..Len(result.text.results) :
                  result.text.results[j][2] = sync.fetched[k].filePath

\* the content of the last GET /files/latest response for filePath that
\* carried a stored version
LastFetched(filePath) ==
  LET ks == {k \in 1..Len(sync.fetched) :
               /\ sync.fetched[k].filePath = filePath
               /\ sync.fetched[k].data # Null}
      last == CHOOSE k \in ks : \A j \in ks : j <= k
  IN sync.fetched[last].data.content

\* C14: every POST /files/store of a sync carries the encoding and the hash
\* of the local file as it is when the request is sent; and when the summary
\* is returned, each path with a download line exists locally and holds the
\* decoding of the latest content the server returned for it, each path with
\* an upload line was stored by a request that succeeded, and the counters
\* count those lines
C14_TransferredAgree ==
  InSync =>
    /\ (pc = "await" /\ reqLog[Len(reqLog)].ep = "POST /files/store") =>
          LET req == reqLog[Len(reqLog)]
              enc == readAndEncodeFile(fs[req.filePath].bytes)
          IN /\ fs[req.filePath].exists
             /\ ~enc.thrown
             /\ req.body.content = enc.content
             /\ req.body.contentHash = computeMd5(fs[req.filePath].bytes)
    /\ SyncSucceeded =>
          /\ \A j \in 1..Len(sync.results) :
                LET filePath == sync.results[j][2] IN
                /\ sync.results[j][1] = "down" =>
                      /\ fs[filePath].exists
                      /\ \E k \in 1..Len(sync.fetched) :
                            /\ sync.fetched[k].filePath = filePath
                            /\ sync.fetched[k].data # Null
                      /\ fs[filePath].bytes = writeDecodedFile(LastFetched(filePath))
                /\ sync.results[j][1] = "up" =>
                      \E k \in 1..Len(reqLog) :
                         /\ reqLog[k].ep = "POST /files/store"
                         /\ reqLog[k].filePath = filePath
                         /\ reqLog[k].outcome = "ok"
          /\ sync.downloaded =
                Cardinality({j \in 1..Len(sync.results) : sync.results[j][1] = "down"})
          /\ sync.uploaded =
                Cardinality({j \in 1..Len(sync.results) : sync.results[j][1] = "up"})

C14_Witness ==
  /\ SyncSucceeded
  /\ sync.results = <<<<"up", "a.txt">>, <<"down", "d/b.bin">>>>
  /\ fs["d/b.bin"] = File(Pack(<<0, 66>>))
  /\ ~SnapshotExists("d/b.bin")

\* the requests the invocation has issued to one of the endpoints eps
Issued(eps) == {k \in 1..Len(reqLog) : reqLog[k].ep \in eps}

Transfers == {"GET /files/latest", "POST /files/store"}

\* the server kept to the syncStatus interface: one verdict per path
OneVerdictPerPath ==
  \A i, j \in 1..Len(sync.verdicts) :
     sync.verdicts[i].filePath = sync.verdicts[j].filePath => i = j

\* C15: a sync that got past its precondition checks issues exactly one
\* GET /files/shared and at most one POST /files/sync; it issues at most one
\* transfer request per verdict, hence (one verdict per path) at most one
\* per path; the POST /files/sync carries one {filePath, contentHash} pair
\* per path of the catalog, in its order, with the empty hash exactly for
\* the paths absent locally
C15_RequestBudget ==
  (InSync /\ pc \in {"await", "done"} /\ Truthy(call.project)) =>
    /\ Cardinality(Issued({"GET /files/shared"})) = 1
    /\ Cardinality(Issued({"POST /files/sync"})) <= 1
    /\ \A i \in 1..Len(sync.verdicts) :
          Cardinality({k \in Issued(Transfers) : reqLog[k].idx = i}) <= 1
    /\ OneVerdictPerPath =>
          \A p \in Paths :
             Cardinality({k \in Issued(Transfers) : reqLog[k].filePath = p}) <= 1
    /\ \A k \in Issued({"POST /files/sync"}) :
          LET pairs == reqLog[k].body.files IN
          /\ Len(pairs) = Len(sync.sharedFiles)
          /\ \A i \in 1..Len(pairs) :
                /\ DOMAIN pairs[i] = {"filePath", "contentHash"}
                /\ pairs[i].filePath = sync.sharedFiles[i].filePath
                /\ pairs[i].contentHash = Str(<<>>)
                      <=> ~SnapshotExists(pairs[i].filePath)
                /\ reqLog[k].outcome = "pending" =>
                      (pairs[i].contentHash = Str(<<>>)
                         <=> ~fs[pairs[i].filePath].exists)

C15_Witness ==
  /\ SyncSucceeded
  /\ OneVerdictPerPath
  /\ Len(sync.sharedFiles) = 2
  /\ Len(reqLog) = 4
  /\ reqLog[2].body.files[1].contentHash = Str(<<>>)
  /\ reqLog[2].body.files[2].contentHash # Str(<<>>)
  /\ reqLog[3].ep = "GET /files/latest"
  /\ reqLog[4].ep = "POST /files/store"

\* C16: when GET /files/shared answers with an empty list the sync returns
\* the 'No shared files' text as an ordinary result, having issued no other
\* request and touched no local file
C16_EmptyCatalog ==
  (/\ InSync
   /\ reqLog # <<>>
   /\ reqLog[1].outcome = "ok"
   /\ sync.sharedFiles = <<>>) =>
    /\ pc = "done"
    /\ result = Returned(Text("No shared files", ""), NoValue)
    /\ Len(reqLog) = 1
    /\ Issued({"POST /files/sync"} \cup Transfers) = {}
    /\ touched = {}

C16_Witness ==
  /\ InSync
  /\ pc = "done"
  /\ reqLog # <<>>
  /\ reqLog[1].ep = "GET /files/shared"
  /\ reqLog[1].outcome = "ok"
  /\ sync.sharedFiles = <<>>
  /\ result.text.msg = "No shared files"

\* the local file is what the snapshot of the running sync saw
AsSnapshot(filePath) ==
  LET local == Find(sync.localFiles, filePath) IN
  local # Undefined =>
    /\ fs[filePath].exists = local.exists
    /\ local.exists => computeMd5(fs[filePath].bytes) = local.contentHash

\* C17: for a verdict up_to_date the sync issues no transfer request; with
\* one verdict per path, no transfer request names the path, the local file
\* is not written and is as the snapshot saw it, and no per-file line names
\* it; when the summary is returned the up-to-date counter counts every
\* verdict that caused no transfer, the up_to_date ones among them
C17_UpToDateUntouched ==
  InSync =>
    /\ \A i \in 1..Len(sync.verdicts) :
          sync.verdicts[i].status = "up_to_date" =>
            /\ \A k \in Issued(Transfers) : reqLog[k].idx # i
            /\ OneVerdictPerPath =>
                  /\ \A k \in Issued(Transfers) :
                        reqLog[k].filePath # sync.verdicts[i].filePath
                  /\ Touch("writeFileSync", sync.verdicts[i].filePath) \notin touched
                  /\ AsSnapshot(sync.verdicts[i].filePath)
                  /\ \A j \in 1..Len(sync.results) :
                        sync.results[j][2] # sync.verdicts[i].filePath
    /\ SyncSucceeded =>
          /\ sync.upToDate =
                Cardinality({i \in 1..Len(sync.verdicts) :
                               \A k \in Issued(Transfers) : reqLog[k].idx # i})
          /\ result.text.upToDate = sync.upToDate

C17_Witness ==
  /\ SyncSucceeded
  /\ sync.verdicts = <<[filePath |-> "a.txt", status |-> "up_to_date"],
                       [filePath |-> "d/b.bin", status |-> "download_needed"]>>
  /\ SnapshotExists("a.txt")
  /\ sync.upToDate = 1
  /\ sync.downloaded = 1

\* machine.json holds a machineId (a non-empty one)
HoldsId(file) == Truthy(ConfigMachineId(getMachineConfig(file)))

\* C18: once machine.json holds a machineId no step changes or rewrites the
\* file and every call of getOrCreateMachineId returns the id it holds, in
\* this process and in every later one; the file is written only when it
\* held no id, which leaves it holding the id returned, so it is written at
\* most once
C18_NeverRotated ==
  [][/\ HoldsId(machineFile) =>
          /\ machineFile' = machineFile
          /\ mWrites' = mWrites
          /\ machineId' # NoValue =>
                machineId' = ConfigMachineId(getMachineConfig(machineFile))
     /\ mWrites' # mWrites =>
          /\ ~HoldsId(machineFile)
          /\ mWrites = 0 /\ mWrites' = 1
          /\ HoldsId(machineFile')
          /\ machineId' = ConfigMachineId(getMachineConfig(machineFile'))]_vars

C18_Witness ==
  /\ mStarts = 3
  /\ mWrites = 1
  /\ host = <<"k">>
  /\ machineId = FreshId(<<"h">>, <<"2">>)
  /\ machineFile = JsonFile(MObject(machineId, Str(<<"h">>)))

InShare == call # NoValue /\ call.tool = "memory_share_file"

\* C19: memory_share_file sends POST /files/store first and POST
\* /files/share second, the share only after the store of the same path has
\* succeeded; a file that is absent or longer than 1 MiB causes neither
\* request; the 'Shared' text is returned only when both have succeeded
C19_StoreThenShare ==
  InShare =>
    /\ Len(reqLog) <= 2
    /\ reqLog # <<>> =>
          /\ reqLog[1].ep = "POST /files/store"
          /\ reqLog[1].filePath = call.filePath
    /\ \A k \in Issued({"POST /files/share"}) :
          /\ k = 2
          /\ reqLog[1].outcome = "ok"
          /\ reqLog[2].filePath = call.filePath
          /\ reqLog[2].project = reqLog[1].project
    /\ (IF fs[call.filePath].exists
        THEN BufLen(fs[call.filePath].bytes) > 1048576
        ELSE TRUE) => reqLog = <<>>
    /\ (pc = "done" /\ result.kind = "text" /\ result.text.msg = "Shared") =>
          /\ Len(reqLog) = 2
          /\ reqLog[1].outcome = "ok"
          /\ reqLog[2].ep = "POST /files/share"
          /\ reqLog[2].outcome = "ok"

C19_Witness ==
  /\ InShare
  /\ pc = "done"
  /\ result.kind = "text"
  /\ result.text = Text("Shared", call.filePath)
  /\ Len(reqLog) = 2
  /\ reqLog[2].ep = "POST /files/share"
  /\ reqLog[2].outcome = "ok"

\* filePath names no local file, or one longer than 1 MiB
Unacceptable(files, filePath) ==
  IF files[filePath].exists
  THEN BufLen(files[filePath].bytes) > 1048576
  ELSE TRUE

\* the invocation served is a memory_store_file or memory_share_file that
\* got past its precondition checks with such a path
RefusedFile(c, files) ==
  /\ c # NoValue
  /\ c.tool \in {"memory_store_file", "memory_share_file"}
  /\ Truthy(c.project)
  /\ Unacceptable(files, c.filePath)

\* C20: memory_store_file and memory_share_file given a path that does not
\* exist or a file longer than 1 MiB return at once with a text naming the
\* cause, having sent no request and changed no local file and nothing on
\* the server; the server then goes back to waiting for invocations with
\* nothing of the refused call left
C20_InputValidation ==
  [][/\ (pc = "idle" /\ RefusedFile(call', fs)) =>
          /\ pc' = "done"
          /\ result'.kind = "text"
          /\ result'.text \in
                {Text("File not found", call'.filePath),
                 Text(FailPrefix(call'.tool), "File exceeds 1MB limit")}
          /\ reqLog' = <<>>
          /\ fs' = fs
          /\ serverFiles' = serverFiles
          /\ \A t \in touched' : t.op \in {"existsSync", "readFileSync"}
     /\ (pc = "done" /\ RefusedFile(call, fs)) =>
          /\ pc' = "idle"
          /\ fs' = fs
          /\ serverFiles' = serverFiles
          /\ call' = NoValue /\ result' = NoValue /\ reqLog' = <<>>]_vars

C20_Witness ==
  /\ pc = "done"
  /\ RefusedFile(call, fs)
  /\ call.tool = "memory_store_file"
  /\ fs[call.filePath] = File(OversizeBytes)
  /\ result = Returned(Text("Failed to store file", "File exceeds 1MB limit"), SizeError)
  /\ reqLog = <<>>

\* C21: the content readAndEncodeFile produced for a file it classified as
\* text is written back as text (its UTF-8 encoding), never base64-decoded,
\* also when the text begins with the literal 'base64:'
C21_PrefixNeverCollides ==
  (cPc = "decoded" /\ ~isBinary(cBytes)) => cFile = Utf8Encode(cEnc.content)

\* the text in CLAUDE.md, empty when there is no file
ClaudeText(file) == IF file.exists THEN file.text ELSE <<>>

EndsWith(text, suffix) ==
  /\ Len(text) >= Len(suffix)
  /\ SubSeq(text, Len(text) - Len(suffix) + 1, Len(text)) = suffix

\* C22: every install or login keeps what CLAUDE.md held as a prefix of what
\* it holds afterwards; without --force, on a file holding the marker, it
\* returns 'exists' and leaves the file as it is; with --force it appends
\* the block; and the commands without --force have appended the block at
\* most once in all
C22_InstallIdempotent ==
  [][cli'.calls = cli.calls + 1 =>
       LET before == ClaudeText(claudeMd)
           after == ClaudeText(claudeMd')
       IN /\ claudeMd.exists => claudeMd'.exists
          /\ Len(before) <= Len(after)
          /\ SubSeq(after, 1, Len(before)) = before
          /\ (~cli'.last.force /\ claudeMd.exists
                /\ TextIncludes(before, FOREVER_MARKER))
             => (cli'.last.result = "exists" /\ claudeMd' = claudeMd)
          /\ cli'.last.force
             => /\ cli'.last.result = "added"
                /\ Len(after) >= Len(before) + Len(FOREVER_INSTRUCTIONS)
                /\ EndsWith(after, FOREVER_INSTRUCTIONS)
          /\ cli'.adds <= 1]_vars

\* an install has added the block, an install --force has added it again,
\* and a later install or login has found it there
C22_Witness ==
  /\ cli.calls = 3
  /\ cli.adds = 1
  /\ ~cli.last.force /\ cli.last.result = "exists"
  /\ Len(ClaudeText(claudeMd)) >= 2 * Len(FOREVER_INSTRUCTIONS)

IsTransfer(req) == req.ep \in {"GET /files/latest", "POST /files/store"}

\* C23: once a request of an invocation has failed, the invocation sends no
\* request to the same endpoint for the same file again, and whatever it
\* still sends is a transfer of memory_sync_files for another file than the
\* one whose transfer failed
C23_NoRetry ==
  \A k \in 1..Len(reqLog) :
     reqLog[k].outcome = "failed" =>
       \A j \in (k + 1)..Len(reqLog) :
          /\ ~(reqLog[j].ep = reqLog[k].ep /\ reqLog[j].filePath = reqLog[k].filePath)
          /\ InSync
          /\ IsTransfer(reqLog[k]) /\ IsTransfer(reqLog[j])
          /\ reqLog[j].filePath # reqLog[k].filePath

\* a sync whose first transfer failed has returned with verdicts left over
C23_Witness ==
  /\ InSync /\ pc = "done"
  /\ Len(reqLog) = 3
  /\ reqLog[3].outcome = "failed"
  /\ sync.idx < Len(sync.verdicts)

\* C24: the file saveCredentials or saveMachineConfig wrote last has mode
\* 0600, and a configuration directory ensureConfigDir created has mode 0700
C24_OwnerOnly ==
  /\ perms.saved = "credentials" => perms.cred = OwnerOnlyFile
  /\ perms.saved = "machine" => perms.machine = OwnerOnlyFile
  /\ perms.madeDir => perms.dir = OwnerOnlyDir

\* C25: in a memory_sync_files invocation only the newest request can be
\* pending; GET /files/shared is the first request, POST /files/sync the
\* second, sent after the first has succeeded; every transfer comes after a
\* successful POST /files/sync, belongs to the verdict whose index it
\* carries, and the transfers follow the order of the verdict list
C25_OneAtATime ==
  InSync =>
    \A k \in 1..Len(reqLog) :
       /\ reqLog[k].outcome = "pending" => k = Len(reqLog)
       /\ reqLog[k].ep = "GET /files/shared" <=> k = 1
       /\ reqLog[k].ep = "POST /files/sync" <=> k = 2
       /\ k >= 2 => reqLog[1].outcome = "ok"
       /\ k >= 3 =>
            /\ reqLog[2].outcome = "ok"
            /\ IsTransfer(reqLog[k])
            /\ reqLog[k].idx \in 1..Len(sync.verdicts)
            /\ reqLog[k].filePath = sync.verdicts[reqLog[k].idx].filePath
            /\ \A j \in 3..(k - 1) :
                  reqLog[j].outcome = "ok" /\ reqLog[j].idx < reqLog[k].idx

\* the second transfer of a sync is in flight, the first one has completed
C25_Witness ==
  /\ InSync /\ pc = "await"
  /\ Len(reqLog) = 4
  /\ reqLog[3].outcome = "ok" /\ reqLog[4].outcome = "pending"
  /\ reqLog[3].ep # reqLog[4].ep

\* no process is between opening machine.json and writing it
RaceQuiet == \A p \in Procs : race.procs[p].pc # "writing"

PersistedId == ConfigMachineId(getMachineConfig(machineFile))

\* C26: every process that found no machineId generates one and writes it;
\* once no write is in progress machine.json holds the config of the last
\* writer; each writer runs with the id it generated, which for different
\* random bytes differs from every other writer's and so, for all but the
\* last writer, from the persisted one; and a process that read the file
\* after completed writes runs with the id of the last of them
C26_LastWriterWins ==
  LET W == race.writers IN
  /\ \A p \in Procs :
        (race.procs[p].pc = "running" /\ race.procs[p].random # NoValue)
        => (race.procs[p].wrote
            /\ \E k \in 1..Len(W) : W[k] = [p |-> p, id |-> race.procs[p].id])
  /\ (RaceQuiet /\ W # <<>>)
     => machineFile = saveMachineConfig(MObject(W[Len(W)].id, Str(host)))
  /\ \A k \in 1..Len(W) :
        /\ race.procs[W[k].p].pc = "running"
        /\ race.procs[W[k].p].id = W[k].id
        /\ \A j \in 1..Len(W) :
              race.procs[W[j].p].random # race.procs[W[k].p].random
              => W[j].id # W[k].id
        /\ (RaceQuiet /\ race.procs[W[k].p].random # race.procs[W[Len(W)].p].random)
           => race.procs[W[k].p].id # PersistedId
  /\ \A p \in Procs :
        (race.procs[p].pc = "running" /\ ~race.procs[p].wrote /\ race.procs[p].seen >= 1)
        => race.procs[p].id = W[race.procs[p].seen].id

\* two processes found no machine.json and both wrote; the first writer
\* runs with an id that is not the persisted one, and a third process that
\* started after both writes runs with the second writer's id
C26_Witness ==
  /\ Len(race.writers) = 2
  /\ RaceQuiet
  /\ race.writers[1].id # race.writers[2].id
  /\ race.procs[race.writers[1].p].seen = 0
  /\ race.procs[race.writers[2].p].seen = 0
  /\ race.procs[race.writers[1].p].id # PersistedId
  /\ \E p \in Procs :
        /\ race.procs[p].pc = "running" /\ ~race.procs[p].wrote
        /\ race.procs[p].seen = 2
        /\ race.procs[p].id = race.writers[2].id

\* C27: the machineId and the sessionId of the process never change; every
\* POST /logs and every POST /files/store carries that machineId, every
\* POST /files/store that sessionId, and every POST /logs the sessionId
\* argument of the call when it is a non-empty string, else that sessionId
C27_FixedIdentity ==
  [][/\ machineId' = machineId
     /\ sessionId' = sessionId
     /\ IsStr(machineId') /\ IsStr(sessionId')
     /\ \A k \in 1..Len(reqLog') :
           /\ reqLog'[k].ep = "POST /files/store"
              => /\ reqLog'[k].body.machineId = machineId'
                 /\ reqLog'[k].body.sessionId = sessionId'
           /\ reqLog'[k].ep = "POST /logs"
              => /\ reqLog'[k].body.machineId = machineId'
                 /\ reqLog'[k].body.sessionId =
                      IF /\ IsStr(call'.explicitSessionId)
                         /\ call'.explicitSessionId.str # <<>>
                      THEN call'.explicitSessionId
                      ELSE sessionId']_vars

\* memory_log called with an empty sessionId has sent the process sessionId
C27_Witness ==
  /\ pc = "await" /\ call.tool = "memory_log"
  /\ call.explicitSessionId = Str(<<>>)
  /\ reqLog[1].ep = "POST /logs"
  /\ reqLog[1].body.sessionId = sessionId
  /\ reqLog[1].body.machineId = machineId

\* the hash the status request of the running sync submits for a path
SubmittedHash(filePath) ==
  LET pairs == reqLog[2].body.files
      i == CHOOSE i \in 1..Len(pairs) : pairs[i].filePath = filePath
  IN pairs[i].contentHash

\* C28: every POST /files/store of a sync carries computeMd5 of the bytes
\* of the file, which is the hash the snapshot of that sync took of it; and
\* the second run submits, for each file the first run uploaded, exactly
\* the hash the server stored with that upload
C28_HashOfRawBytes ==
  InSync =>
    /\ \A k \in 1..Len(reqLog) :
          reqLog[k].ep = "POST /files/store"
          => /\ reqLog[k].body.contentHash = computeMd5(fs[reqLog[k].filePath].bytes)
             /\ reqLog[k].body.contentHash =
                  Find(sync.localFiles, reqLog[k].filePath).contentHash
    /\ (runNo = 2 /\ Len(reqLog) >= 2)
       => \A j \in 1..Len(prevRun) :
             prevRun[j][1] = "up"
             => SubmittedHash(prevRun[j][2]) = serverFiles[prevRun[j][2]].contentHash

\* the first run has uploaded the binary file and the second run has
\* submitted the stored hash for it
C28_Witness ==
  /\ InSync /\ runNo = 2 /\ Len(reqLog) >= 2
  /\ fs["d/b.bin"] = File(BinaryBytes)
  /\ \E j \in 1..Len(prevRun) : prevRun[j] = <<"up", "d/b.bin">>
  /\ SubmittedHash("d/b.bin") = serverFiles["d/b.bin"].contentHash
  /\ SubmittedHash("d/b.bin") # computeMd5(serverFiles["d/b.bin"].content)

\* C29: the client of an invocation has a timeout of 30,000 ms when the
\* tool is memory_store_file, memory_restore_file, memory_share_file or
\* memory_sync_files and of 10,000 ms for the other five, which call
\* createApiClient without options; requests are sent by such clients only
C29_Timeouts ==
  call # NoValue =>
    /\ reqLog # <<>> => UsableCredentials
    /\ UsableCredentials =>
         call.timeout =
           IF call.tool \in {"memory_store_file", "memory_restore_file",
                             "memory_share_file", "memory_sync_files"}
           THEN 30000
           ELSE 10000

\* memory_unshare_file, a file tool, is waiting on a client with the
\* default timeout
C29_Witness ==
  /\ pc = "await"
  /\ call.tool = "memory_unshare_file"
  /\ call.timeout = 10000
  /\ reqLog[1].ep = "POST /files/unshare"

KnownStatuses == {"up_to_date", "download_needed", "upload_needed"}

\* C30: in a sync, a file is written only with content fetched for one of
\* its verdicts, and a file the snapshot found existing only for a verdict
\* download_needed; GET /files/latest is sent only for a verdict
\* download_needed or, the override, upload_needed on a file the snapshot
\* found absent; POST /files/store only for a verdict upload_needed on a
\* file the snapshot found existing; and a verdict of any other status than
\* the three known ones has no request and no fetched content
C30_VerdictDriven ==
  InSync =>
    /\ \A p \in Paths :
          Touch("writeFileSync", p) \in touched
          => \E k \in 1..Len(sync.fetched) :
                /\ sync.fetched[k].filePath = p
                /\ sync.fetched[k].data # Null
    /\ \A k \in 1..Len(sync.fetched) :
          LET v == sync.verdicts[sync.fetched[k].idx] IN
          /\ v.filePath = sync.fetched[k].filePath
          /\ (sync.fetched[k].data # Null /\ SnapshotExists(v.filePath))
             => v.status = "download_needed"
    /\ \A k \in 1..Len(reqLog) :
          IsTransfer(reqLog[k])
          => LET v == sync.verdicts[reqLog[k].idx] IN
             /\ v.filePath = reqLog[k].filePath
             /\ reqLog[k].ep = "GET /files/latest"
                => \/ v.status = "download_needed"
                   \/ (v.status = "upload_needed" /\ ~SnapshotExists(v.filePath))
             /\ reqLog[k].ep = "POST /files/store"
                => (v.status = "upload_needed" /\ SnapshotExists(v.filePath))
    /\ \A i \in 1..Len(sync.verdicts) :
          sync.verdicts[i].status \notin KnownStatuses
          => /\ \A k \in 1..Len(reqLog) : reqLog[k].idx # i
             /\ \A k \in 1..Len(sync.fetched) : sync.fetched[k].idx # i

\* a sync was given an unknown status for one existing file and
\* download_needed for another, and has overwritten only the second
C30_Witness ==
  /\ InSync /\ pc = "done"
  /\ Len(sync.verdicts) = 2
  /\ sync.verdicts[1].status = "conflict"
  /\ sync.verdicts[2].status = "download_needed"
  /\ sync.verdicts[1].filePath # sync.verdicts[2].filePath
  /\ SnapshotExists(sync.verdicts[1].filePath)
  /\ SnapshotExists(sync.verdicts[2].filePath)
  /\ Len(reqLog) = 3
  /\ touched \cap {Touch("writeFileSync", p) : p \in Paths}
       = {Touch("writeFileSync", sync.verdicts[2].filePath)}

\* C31: every POST /files/store of a sync is self-consistent, also when the
\* file has changed since the snapshot: its contentHash is the MD5 of the
\* bytes its content encodes, which are the bytes writeDecodedFile writes
\* for it
C31_SelfConsistentUpload ==
  InSync =>
    \A k \in 1..Len(reqLog) :
       reqLog[k].ep = "POST /files/store"
       => reqLog[k].body.contentHash = computeMd5(writeDecodedFile(reqLog[k].body.content))

\* the part of C31 about the single read: the request a step of the handler
\* adds carries the hash and the encoding of the bytes the file holds at
\* that step
C31_SingleRead ==
  [][(InSync /\ Len(reqLog') > Len(reqLog)
      /\ reqLog'[Len(reqLog')].ep = "POST /files/store")
     => LET req == reqLog'[Len(reqLog')]
            enc == readAndEncodeFile(fs[req.filePath].bytes) IN
        /\ req.body.contentHash = enc.hash
        /\ req.body.content = enc.content]_vars

\* an upload whose hash differs from the one the status request submitted
C31_EditedBeforeUpload ==
  /\ InSync /\ Len(reqLog) >= 3
  /\ reqLog[Len(reqLog)].ep = "POST /files/store"
  /\ reqLog[Len(reqLog)].body.contentHash
       # SubmittedHash(reqLog[Len(reqLog)].filePath)

\* the number a summary shows for a counter: that of its line, 0 without one
Shown(text, label) ==
  IF \E j \in 1..Len(text.lines) : text.lines[j].label = label
  THEN text.lines[CHOOSE j \in 1..Len(text.lines) : text.lines[j].label = label].n
  ELSE 0

\* the downloads of the running sync whose GET /files/latest had no content
MissingDownloads == {k \in 1..Len(sync.fetched) : sync.fetched[k].data = Null}

\* C32: in every summary memory_sync_files returns, the three counters and
\* the downloads that found no content add up to the number of verdicts,
\* the per-file lines are as many as downloaded + uploaded, and the header
\* counts the shared catalog
C32_SummaryArithmetic ==
  (SyncSucceeded /\ result.text.msg = "Synced shared file(s)") =>
    LET t == result.text IN
    /\ Shown(t, "downloaded") + Shown(t, "uploaded") + Shown(t, "up to date")
         + Cardinality(MissingDownloads) = Len(sync.verdicts)
    /\ Len(t.results) = Shown(t, "downloaded") + Shown(t, "uploaded")
    /\ t.count = Len(sync.sharedFiles)

\* a summary over a catalog of two files for which the server returned one
\* verdict, a download that found no content
C32_Witness ==
  /\ SyncSucceeded /\ result.text.msg = "Synced shared file(s)"
  /\ Len(sync.sharedFiles) = 2 /\ Len(sync.verdicts) = 1
  /\ Cardinality(MissingDownloads) = 1
  /\ result.text.count = 2
  /\ result.text.lines = <<>>

InRestore == call # NoValue /\ call.tool = "memory_restore_file"

\* C33: the step of memory_restore_file that takes the response to GET
\* /files/latest returns a text; it leaves every local file alone when the
\* request failed or no version is stored, and otherwise writes the decoded
\* content of the stored version to the file, whatever the file held
C33_RestoreFrame ==
  [][(pc = "await" /\ InRestore /\ pc' = "done")
     => LET got == reqLog'[1] IN
        /\ result'.kind = "text"
        /\ got.outcome \in {"ok", "failed"}
        /\ (got.outcome = "failed" \/ got.data = Null)
           => fs' = fs /\ touched' = touched
        /\ (got.outcome = "ok" /\ got.data # Null)
           => /\ fs' = [fs EXCEPT ![call.filePath] =
                          File(writeDecodedFile(got.data.content))]
              /\ Touch("writeFileSync", call.filePath) \in touched']_vars

\* a restore has written the stored version to the file and returned; the
\* version is one whose hash a local file of the machine may already have
C33_Witness ==
  /\ InRestore /\ pc = "done" /\ reqLog # <<>>
  /\ reqLog[1].outcome = "ok" /\ reqLog[1].data # Null
  /\ reqLog[1].data.contentHash = computeMd5(TextBytes)
  /\ fs[call.filePath] = File(TextBytes)
  /\ Touch("writeFileSync", call.filePath) \in touched

\* C34: the login loop changes credentials.json only on a response of the
\* token endpoint and then exits with 0; after 'authorization_pending' it
\* polls again unless the deadline has passed; an 'expired_token', any other
\* error, or the deadline end the process with a non-zero exit code and
\* credentials.json as it was
C34_LoginOutcome ==
  /\ login.pc \in {"code", "sleep", "token"} => credFile = login.before
  /\ login.pc = "exited" =>
       /\ login.exit \in {0, 1}
       /\ credFile # login.before => (login.last = "ok" /\ login.exit = 0)
       /\ login.exit # 0 => credFile = login.before
       /\ login.last \in {"none", "expired", "error", "empty", "pending"}
          => login.exit = 1
       /\ login.last = "pending" => ~Before(login.now, login.deadline)
  /\ login.last = "pending" => login.pc \in {"sleep", "token", "exited"}

\* the part of C34 about termination: once started, the command exits
C34_LoginTerminates == (login.pc # "off") ~> (login.pc = "exited")

\* the part of C34 about the loop: a step that takes 'authorization_pending'
\* changes nothing but the loop itself
C34_PendingPollsAgain ==
  [][(login.pc = "token" /\ login'.last = "pending" /\ login'.pc # "token")
     => /\ credFile' = credFile /\ claudeMd' = claudeMd
        /\ login'.pc = "sleep" <=> Before(login'.now, login.deadline)]_vars

\* the token endpoint answered the third poll, the credentials are saved
\* and the exit code is 0
C34_LateSuccess ==
  /\ login.pc = "exited" /\ login.exit = 0 /\ login.polls = 3
  /\ credFile # login.before

====
